---- MODULE Spec2Model ----
(***************************************************************************)
(* Model of the movies page of zeestream-console (MoviesPage in            *)
(* src/pages/DashboardPage.tsx) and of the scrapped-movie edit dialog      *)
(* (src/components/movies/ScrappedMovieDialog.tsx).                        *)
(*                                                                         *)
(* Two remote stores: the Firestore collection 'movies' (primaryStore) and *)
(* the REST backend of scrapped movies (scrapeStore).  Every await of a    *)
(* store call is a point where the handler is suspended: the call and its  *)
(* resolution are separate steps, and other handlers run in between.       *)
(* A store call either succeeds with its effect applied or fails with no   *)
(* effect.  The edit dialog is modal: while it is open the controls of the *)
(* page behind it are not operated.                                        *)
(***************************************************************************)
EXTENDS Integers, Sequences, FiniteSets, TLC

\* ---- bounds -------------------------------------------------------------
MaxScrape == 2
MaxAuto == 2
MaxCountDocs == 2
MaxRecentDocs == 6
MaxSeconds == 2
MaxPending == 2
MaxComments == 2
MaxAppends == 1
MaxTargets == 2
MaxPayloadComments == 2
MaxNameLen == 4
MaxSources == 3
MaxInFlight == 2
MaxPageDeletes == 2

\* ---- values -------------------------------------------------------------
ScrapeIds == {<<"scrape", i>> : i \in 1..MaxScrape}
AutoIds == {<<"auto", i>> : i \in 1..MaxAuto}
Undefined == <<"undefined", 0>>
\* record bodies: the name stands for every field other than the id
Names == {"n1"}
Movie == [id : ScrapeIds, name : Names]
NoMovie == [id |-> Undefined, name |-> "null"]
NoUrl == ""
BackendUrl == "http://backend"

VARIABLES
  API_SCRAPPED_MOVIES_BASE_URL, \* module constant read from import.meta.env
  scrapeStore,                  \* backend: scrape id -> name of the record
  primaryStore,                 \* Firestore: document id -> document data
  mounted,                      \* the mount effect has run
  firebaseMovies,               \* useState: local copy of the primary records
  scrappedMovies,               \* useState: local list of scrape records
  loadingFirebaseMovies,        \* useState
  loadingScrappedMovies,        \* useState
  selectedScrappedMovie,        \* useState: record shown in the dialog
  isScrappedMovieDialogOpen,    \* useState
  selectedScrappedMovieIds,     \* useState: the operator's selection set
  isBatchInserting,             \* useState
  toast,                        \* the toast shown by the last step, if any
  getDocsPending,               \* fetchFirebaseMovies suspended at getDocs
  getPending,                   \* fetchScrappedMovies suspended at axios.get
  deleting,                     \* handleDeleteScrappedMovie suspended at axios.delete (its movieId)
  putPending,                   \* handleSubmit suspended at axios.put (its payload)
  batchPc,                      \* position of the batch handler
  moviesToInsert,               \* batch local: the filtered list
  idx,                          \* batch local: position of the for loop
  successCount,                 \* batch local
  failCount,                    \* batch local
  batchSelected,                \* history: the selection set the batch started with
  batchListed,                  \* history: ids of the records the batch started with
  insertCalls,                  \* history: ids whose addDoc was called, in order
  insertOk,                     \* history: ids whose addDoc resolved
  deleteCalls,                  \* history: ids whose axios.delete was called by the batch
  deleteOk,                     \* history: ids whose batch axios.delete resolved
  migratedFrom,                 \* history: document id -> scrape id it was copied from
  everMigrated                  \* history: ids inserted and deleted by one batch

\* getDashboardStats (src/utils/firebase.ts)
VARIABLES
  moviesSnapshot,               \* the documents of 'movies' that getDocs returns, in order
  usersSnapshot,                \* the size of the snapshot of 'users'
  clock,                        \* what new Date() returns, in milliseconds
  stats                         \* what getDashboardStats has returned, if it has

\* AuthProvider
VARIABLES
  authCurrentUser,              \* the signed-in user the auth service last reported
  user,                         \* useState
  userProfile,                  \* useState
  isAdmin,                      \* useState
  loading,                      \* useState
  users,                        \* the collection 'users': uid -> profile
  callbacks,                    \* the runs of the auth-state callback suspended at an await
  rolesWritten                  \* history: the roles this client has written with setDoc

\* deleteComment (src/utils/firebase.ts)
VARIABLES
  movieComments,                \* the collection 'movies': movie id -> its comments field
  deleteCommentCalls,           \* caller -> its call of deleteComment, suspended at an await
  appended,                     \* history: the comments other clients have appended
  targeted,                     \* history: <<movie id, comment id>> deleteComment was called with
  removed                       \* history: <<movie id, comment id>> a deleteComment write removed

\* one record on its way from the backend's response to addDoc (MoviesPage)
VARIABLES
  responseData,                 \* a record of response.data, as the backend's JSON has it
  scrappedMoviesData,           \* the record fetchScrappedMovies makes of it for the local list
  addDocData                    \* the data the batch hands to addDoc for it

\* generateSlug (src/utils/firebase.ts) applied to a name and to its result
VARIABLES
  slugName,                     \* the name, a sequence of characters
  slug,                         \* generateSlug(slugName), once computed
  slugOfSlug                    \* generateSlug(slug), once computed

\* the scrap commands of the dashboard (DashboardPage in src/pages/EpisodesPage.tsx)
VARIABLES
  commandLoading,               \* source -> status ("idle": the source has no entry)
  scrapRequests                 \* source -> its requests in flight, each with the
                                \* commandLoading its call of sendScrapCommand saw

\* CommentsPage (src/pages/CommentsPage.tsx)
VARIABLES
  localComments,                     \* the local list of comments, newest first
  commentsLoading,              \* loading: fetchComments has not finished
  commentDeletes,               \* the calls of handleDeleteComment waiting for deleteComment,
                                \* each with the comments of the render it was called in
  fetchedComments,              \* history: the comments fetchComments loaded
  deletedComments,              \* history: the comments whose deleteComment succeeded
  commentDeleteFailed           \* history: some deleteComment has thrown

\* MovieDialog for the records of the primary store (MovieDialog.tsx, MoviesPage)
VARIABLES
  movieFields,                  \* the collection 'movies': movie id -> the fields of the
                                \* document other than comments (which movieComments holds)
  selectedFirebaseMovie,        \* the movie prop of the dialog: the record as the page loaded it
  isFirebaseMovieDialogOpen,
  movieSave                     \* the call of updateMovie or addMovie the dialog is waiting for

\* The history variables of a batch describe the batch in progress or the
\* one that has just completed; they are forgotten when the refresh that the
\* completion starts has returned.
storeVars == <<scrapeStore, primaryStore, migratedFrom, everMigrated>>
pageVars == <<mounted, firebaseMovies, scrappedMovies, loadingFirebaseMovies,
              loadingScrappedMovies, selectedScrappedMovieIds, isBatchInserting>>
dialogVars == <<selectedScrappedMovie, isScrappedMovieDialogOpen>>
pendingVars == <<getDocsPending, getPending, deleting, putPending>>
batchVars == <<batchPc, moviesToInsert, idx, successCount, failCount>>
historyVars == <<batchSelected, batchListed, insertCalls, insertOk, deleteCalls, deleteOk>>
statsVars == <<moviesSnapshot, usersSnapshot, clock, stats>>
\* the variables of the other parts of the console, which the movies page
\* leaves alone
authVars == <<authCurrentUser, user, userProfile, isAdmin, loading, users, callbacks,
              rolesWritten>>
commentVars == <<movieComments, deleteCommentCalls, appended, targeted, removed>>
payloadVars == <<responseData, scrappedMoviesData, addDocData>>
slugVars == <<slugName, slug, slugOfSlug>>
scrapVars == <<commandLoading, scrapRequests>>
commentsPageVars == <<localComments, commentsLoading, commentDeletes, fetchedComments,
                      deletedComments, commentDeleteFailed>>
movieDialogVars == <<movieFields, selectedFirebaseMovie, isFirebaseMovieDialogOpen, movieSave>>
otherVars == <<statsVars, authVars, commentVars, payloadVars, slugVars, scrapVars, commentsPageVars, movieDialogVars>>
\* the variables of the movies page and its two stores
moviesPageVars == <<API_SCRAPPED_MOVIES_BASE_URL, storeVars, pageVars, dialogVars, toast,
                    pendingVars, batchVars, historyVars>>
vars == <<API_SCRAPPED_MOVIES_BASE_URL, storeVars, pageVars, dialogVars, toast,
          pendingVars, batchVars, historyVars, otherVars>>

\* ---- helpers ------------------------------------------------------------
Range(s) == {s[i] : i \in DOMAIN s}
Ids(s) == {s[i].id : i \in DOMAIN s}
Without(f, k) == [x \in DOMAIN f \ {k} |-> f[x]]

\* prev.filter(m => m.id !== movieId)
FilterOut(s, movieId) == SelectSeq(s, LAMBDA m : m.id # movieId)

Toast(title, description, counts, variant) ==
  [title |-> title, description |-> description, counts |-> counts, variant |-> variant]
NoToast == Toast("", "", <<>>, "")
InfoNoSelection == Toast("Info", "No movies selected for insertion.", <<>>, "default")
WarningNotDeleted == Toast("Warning", "inserted into My App, but failed to delete from backend.", <<>>, "warning")
\* `${successCount} movies inserted, ${failCount} failed.`
BatchSummary(sc, fc) ==
  Toast("Batch Insertion Complete", "movies inserted, failed.", <<sc, fc>>,
        IF sc > 0 THEN "default" ELSE "destructive")

\* GET /movies: the records of the backend, mapped to local Movie objects
ScrapeListing ==
  LET ordered == SelectSeq([i \in 1..MaxScrape |-> <<"scrape", i>>],
                           LAMBDA k : k \in DOMAIN scrapeStore)
  IN [i \in DOMAIN ordered |-> [id |-> ordered[i], name |-> scrapeStore[ordered[i]]]]

\* snapshot.docs.map(doc => ({ id: doc.id, ...doc.data(), ... }))
\* a field named id in the document data overrides doc.id
FirebaseListing ==
  {[id |-> IF primaryStore[d].id # Undefined THEN primaryStore[d].id ELSE d,
    name |-> primaryStore[d].name] : d \in DOMAIN primaryStore}

\* faulty variant: the payload keeps the id of the scrape record
firebaseMovieData_KeepsId(movie) == movie

\* { ...movie, id: undefined, ... }: the payload handed to addDoc
firebaseMovieData(movie) == [movie EXCEPT !.id = Undefined]

\* addDoc assigns an identifier of its own to the new document
FreeAutoIds == AutoIds \ DOMAIN primaryStore
NewDocId == <<"auto", CHOOSE i \in 1..MaxAuto :
                /\ <<"auto", i>> \in FreeAutoIds
                /\ \A j \in 1..(i - 1) : <<"auto", j>> \notin FreeAutoIds>>

TypeOK ==
  /\ API_SCRAPPED_MOVIES_BASE_URL \in {NoUrl, BackendUrl}
  /\ DOMAIN scrapeStore \subseteq ScrapeIds
  /\ DOMAIN primaryStore \subseteq AutoIds
  /\ mounted \in BOOLEAN
  /\ Ids(scrappedMovies) \subseteq ScrapeIds
  /\ selectedScrappedMovieIds \subseteq ScrapeIds
  /\ isBatchInserting \in BOOLEAN
  /\ batchPc \in {"idle", "awaitInsert", "awaitDelete"}
  /\ deleting \in ScrapeIds \cup {Undefined}
  /\ successCount \in Nat /\ failCount \in Nat

\* getDashboardStats has not been called and has nothing to read
NoStats == [totalMovies |-> 0, totalSeries |-> 0, totalEpisodes |-> 0, totalUsers |-> 0,
            totalComments |-> 0, recentMovies |-> << >>, state |-> "none"]
StatsIdle ==
  /\ moviesSnapshot = << >>
  /\ usersSnapshot = 0
  /\ clock = 0
  /\ stats = NoStats

\* AuthProvider before the auth service has reported anything
Uids == {"u1", "u2"}
NoUser == "null"
Unresolved == "unresolved"
NoProfile == [uid |-> NoUser, role |-> "null"]
Done == [pc |-> "done", uid |-> NoUser]
AuthIdle ==
  /\ authCurrentUser = Unresolved
  /\ user = NoUser
  /\ userProfile = NoProfile
  /\ isAdmin = FALSE
  /\ loading = TRUE
  /\ users = << >>
  /\ callbacks = [slot \in 1..MaxPending |-> Done]
  /\ rolesWritten = {}

\* no call of deleteComment
Callers == {"a", "b"}
NoCall == [pc |-> "done", movieId |-> "", commentId |-> "",
           movieData |-> << >>, updatedComments |-> << >>]
CommentsIdle ==
  /\ movieComments = << >>
  /\ deleteCommentCalls = [caller \in Callers |-> NoCall]
  /\ appended = {}
  /\ targeted = {}
  /\ removed = {}

\* no record on its way
PayloadIdle ==
  /\ responseData = << >>
  /\ scrappedMoviesData = << >>
  /\ addDocData = << >>

\* generateSlug not called
SlugIdle ==
  /\ slugName = << >>
  /\ slug = << >>
  /\ slugOfSlug = << >>

\* the dashboard with no scrap command sent
ScrapButtonIds == <<"mihetoFilms", "oshakurFilms", "anotherSource1", "anotherSource2",
                    "anotherSource3">>
Sources == {ScrapButtonIds[i] : i \in 1..MaxSources}
ScrapIdle ==
  /\ commandLoading = [source \in Sources |-> "idle"]
  /\ scrapRequests = [source \in Sources |-> << >>]

\* CommentsPage as constructed: its mount effect has called fetchComments
CommentsPageIdle ==
  /\ localComments = << >>
  /\ commentsLoading = TRUE
  /\ commentDeletes = << >>
  /\ fetchedComments = {}
  /\ deletedComments = {}
  /\ commentDeleteFailed = FALSE

\* MovieDialog closed, over an empty collection
MovieDialogIdle ==
  /\ movieFields = << >>
  /\ selectedFirebaseMovie = << >>
  /\ isFirebaseMovieDialogOpen = FALSE
  /\ movieSave = << >>

\* the movies page before its mount effect has run
MoviesPageInit ==
  /\ API_SCRAPPED_MOVIES_BASE_URL \in {NoUrl, BackendUrl}
  /\ scrapeStore \in [ScrapeIds -> {"n1"}]
  /\ primaryStore = << >>
  /\ migratedFrom = << >>
  /\ everMigrated = {}
  /\ mounted = FALSE
  /\ firebaseMovies = {}
  /\ scrappedMovies = << >>
  /\ loadingFirebaseMovies = TRUE
  /\ loadingScrappedMovies = TRUE
  /\ selectedScrappedMovie = NoMovie
  /\ isScrappedMovieDialogOpen = FALSE
  /\ selectedScrappedMovieIds = {}
  /\ isBatchInserting = FALSE
  /\ toast = NoToast
  /\ getDocsPending = FALSE
  /\ getPending = FALSE
  /\ deleting = Undefined
  /\ putPending = NoMovie
  /\ batchPc = "idle"
  /\ moviesToInsert = << >>
  /\ idx = 0
  /\ successCount = 0
  /\ failCount = 0
  /\ batchSelected = {}
  /\ batchListed = {}
  /\ insertCalls = << >>
  /\ insertOk = {}
  /\ deleteCalls = << >>
  /\ deleteOk = {}

Init == MoviesPageInit /\ StatsIdle /\ AuthIdle /\ CommentsIdle /\ PayloadIdle /\ SlugIdle /\ ScrapIdle /\ CommentsPageIdle /\ MovieDialogIdle

\* the movies page is not open
MoviesPageIdle == MoviesPageInit /\ API_SCRAPPED_MOVIES_BASE_URL = BackendUrl

NoHistory ==
  /\ batchSelected' = {}
  /\ batchListed' = {}
  /\ insertCalls' = << >>
  /\ insertOk' = {}
  /\ deleteCalls' = << >>
  /\ deleteOk' = {}

\* ---- fetchFirebaseMovies -----------------------------------------------
\* up to the await of getDocs
fetchFirebaseMovies ==
  /\ loadingFirebaseMovies' = TRUE
  /\ getDocsPending' = TRUE

\* getDocs returns (ok) or throws; catch and finally
GetDocsResolve(ok) ==
  /\ getDocsPending
  /\ getDocsPending' = FALSE
  /\ loadingFirebaseMovies' = FALSE
  /\ IF ok
       THEN firebaseMovies' = FirebaseListing
       ELSE firebaseMovies' = firebaseMovies
  /\ toast' = NoToast
  /\ IF batchPc = "idle" THEN NoHistory ELSE UNCHANGED historyVars
  /\ UNCHANGED <<otherVars, API_SCRAPPED_MOVIES_BASE_URL, storeVars, mounted, scrappedMovies,
                 loadingScrappedMovies, selectedScrappedMovieIds, isBatchInserting,
                 dialogVars, getPending, deleting, putPending, batchVars>>

\* ---- fetchScrappedMovies -----------------------------------------------
\* faulty variant: the request is sent without looking at the base address
fetchScrappedMovies_NoCheck ==
  /\ loadingScrappedMovies' = TRUE
  /\ getPending' = TRUE

\* up to the await of axios.get; without a base address the throw, the catch
\* and the finally run at once
fetchScrappedMovies ==
  IF API_SCRAPPED_MOVIES_BASE_URL = NoUrl
    THEN /\ loadingScrappedMovies' = FALSE
         /\ getPending' = getPending
    ELSE /\ loadingScrappedMovies' = TRUE
         /\ getPending' = TRUE

\* axios.get returns (ok) or throws; catch and finally
GetResolve(ok) ==
  /\ getPending
  /\ getPending' = FALSE
  /\ loadingScrappedMovies' = FALSE
  /\ IF ok
       THEN scrappedMovies' = ScrapeListing
       ELSE scrappedMovies' = scrappedMovies
  /\ toast' = NoToast
  /\ UNCHANGED <<otherVars, API_SCRAPPED_MOVIES_BASE_URL, storeVars, mounted, firebaseMovies,
                 loadingFirebaseMovies, selectedScrappedMovieIds, isBatchInserting,
                 dialogVars, getDocsPending, deleting, putPending, batchVars, historyVars>>

\* useEffect(() => { fetchFirebaseMovies(); fetchScrappedMovies(); }, [])
Mount ==
  /\ ~mounted
  /\ mounted' = TRUE
  /\ fetchFirebaseMovies
  /\ fetchScrappedMovies
  /\ toast' = NoToast
  /\ UNCHANGED <<otherVars, API_SCRAPPED_MOVIES_BASE_URL, storeVars, firebaseMovies, scrappedMovies,
                 selectedScrappedMovieIds, isBatchInserting, dialogVars, deleting,
                 putPending, batchVars, historyVars>>

\* ---- handleDeleteScrappedMovie -----------------------------------------
\* up to the await of axios.delete
handleDeleteScrappedMovie(movieId) ==
  /\ IF API_SCRAPPED_MOVIES_BASE_URL = NoUrl
       THEN deleting' = deleting
       ELSE deleting' = movieId
  /\ toast' = NoToast
  /\ UNCHANGED <<otherVars, API_SCRAPPED_MOVIES_BASE_URL, storeVars, pageVars, dialogVars,
                 getDocsPending, getPending, putPending, batchVars, historyVars>>

\* axios.delete returns (ok) or throws.  DELETE of an id the backend no
\* longer holds may be answered either way.
DeleteResolve(ok) ==
  /\ deleting # Undefined
  /\ deleting' = Undefined
  /\ IF ok
       THEN /\ scrapeStore' = Without(scrapeStore, deleting)
            /\ scrappedMovies' = FilterOut(scrappedMovies, deleting)
       ELSE UNCHANGED <<scrapeStore, scrappedMovies>>
  /\ toast' = NoToast
  /\ UNCHANGED <<otherVars, API_SCRAPPED_MOVIES_BASE_URL, primaryStore, migratedFrom, everMigrated,
                 mounted, firebaseMovies, loadingFirebaseMovies, loadingScrappedMovies,
                 selectedScrappedMovieIds, isBatchInserting, dialogVars,
                 getDocsPending, getPending, putPending, batchVars, historyVars>>

\* ---- handleToggleScrappedMovieSelection --------------------------------
handleToggleScrappedMovieSelection(movieId, isChecked) ==
  /\ selectedScrappedMovieIds' =
       IF isChecked THEN selectedScrappedMovieIds \cup {movieId}
                    ELSE selectedScrappedMovieIds \ {movieId}
  /\ toast' = NoToast
  /\ UNCHANGED <<otherVars, API_SCRAPPED_MOVIES_BASE_URL, storeVars, mounted, firebaseMovies,
                 scrappedMovies, loadingFirebaseMovies, loadingScrappedMovies,
                 isBatchInserting, dialogVars, pendingVars, batchVars, historyVars>>

\* ---- the edit dialog ----------------------------------------------------
handleEditScrappedMovie(movie) ==
  /\ selectedScrappedMovie' = movie
  /\ isScrappedMovieDialogOpen' = TRUE
  /\ toast' = NoToast
  /\ UNCHANGED <<otherVars, API_SCRAPPED_MOVIES_BASE_URL, storeVars, pageVars,
                 pendingVars, batchVars, historyVars>>

\* onOpenChange={setIsScrappedMovieDialogOpen}: the dialog is dismissed
CloseDialog ==
  /\ isScrappedMovieDialogOpen
  /\ isScrappedMovieDialogOpen' = FALSE
  /\ toast' = NoToast
  /\ UNCHANGED <<otherVars, API_SCRAPPED_MOVIES_BASE_URL, storeVars, pageVars, selectedScrappedMovie,
                 pendingVars, batchVars, historyVars>>

\* handleSubmit of the dialog, up to the await of axios.put; name is formData.name
handleSubmit(movie, name) ==
  /\ IF API_SCRAPPED_MOVIES_BASE_URL # NoUrl /\ movie # NoMovie
       THEN putPending' = [id |-> movie.id, name |-> name]
       ELSE putPending' = putPending
  /\ toast' = NoToast
  /\ UNCHANGED <<otherVars, API_SCRAPPED_MOVIES_BASE_URL, storeVars, pageVars, dialogVars,
                 getDocsPending, getPending, deleting, batchVars, historyVars>>

\* axios.put returns (ok) or throws; on success onSuccess() is
\* handleScrappedMovieUpdate.  PUT of an id the backend no longer holds fails.
PutResolve(ok) ==
  /\ putPending # NoMovie
  /\ ok => putPending.id \in DOMAIN scrapeStore
  /\ putPending' = NoMovie
  /\ IF ok
       THEN /\ scrapeStore' = [scrapeStore EXCEPT ![putPending.id] = putPending.name]
            /\ fetchScrappedMovies
            /\ isScrappedMovieDialogOpen' = FALSE
            /\ selectedScrappedMovie' = NoMovie
       ELSE UNCHANGED <<scrapeStore, loadingScrappedMovies, getPending, dialogVars>>
  /\ toast' = NoToast
  /\ UNCHANGED <<otherVars, API_SCRAPPED_MOVIES_BASE_URL, primaryStore, migratedFrom, everMigrated,
                 mounted, firebaseMovies, scrappedMovies, loadingFirebaseMovies,
                 selectedScrappedMovieIds, isBatchInserting, getDocsPending,
                 deleting, batchVars, historyVars>>


\* ---- handleInsertSelectedScrappedMoviesToFirebase ----------------------
\* faulty variant: the completion code leaves the selection set as it is
LoopFrom_KeepsSelection(i, mti, sc, fc, t, calls, busy) ==
  IF i < Len(mti)
    THEN /\ batchPc' = "awaitInsert"
         /\ moviesToInsert' = mti
         /\ idx' = i + 1
         /\ successCount' = sc
         /\ failCount' = fc
         /\ insertCalls' = Append(calls, mti[i + 1].id)
         /\ isBatchInserting' = busy
         /\ toast' = t
         /\ UNCHANGED <<selectedScrappedMovieIds, loadingFirebaseMovies, getDocsPending>>
    ELSE /\ batchPc' = "idle"
         /\ moviesToInsert' = << >>
         /\ idx' = 0
         /\ successCount' = 0
         /\ failCount' = 0
         /\ insertCalls' = calls
         /\ isBatchInserting' = FALSE
         /\ selectedScrappedMovieIds' = selectedScrappedMovieIds
         /\ fetchFirebaseMovies
         /\ toast' = BatchSummary(sc, fc)

\* The for loop after record i of mti is finished, with the counts sc and fc:
\* either the payload of the next record is built and addDoc is called, or
\* the loop is over, the completion code runs and the handler returns.
\* t is the toast of this step if the loop goes on, calls the addDoc calls
\* so far, busy is isBatchInserting.
LoopFrom(i, mti, sc, fc, t, calls, busy) ==
  IF i < Len(mti)
    THEN /\ batchPc' = "awaitInsert"
         /\ moviesToInsert' = mti
         /\ idx' = i + 1
         /\ successCount' = sc
         /\ failCount' = fc
         /\ insertCalls' = Append(calls, mti[i + 1].id)
         /\ isBatchInserting' = busy
         /\ toast' = t
         /\ UNCHANGED <<selectedScrappedMovieIds, loadingFirebaseMovies, getDocsPending>>
    ELSE /\ batchPc' = "idle"
         /\ moviesToInsert' = << >>
         /\ idx' = 0
         /\ successCount' = 0
         /\ failCount' = 0
         /\ insertCalls' = calls
         /\ isBatchInserting' = FALSE
         /\ selectedScrappedMovieIds' = {}
         /\ fetchFirebaseMovies
         /\ toast' = BatchSummary(sc, fc)

\* faulty variant: the handler never sets the flag isBatchInserting
handleInsertSelected_NeverBusy ==
  /\ selectedScrappedMovieIds # {} => batchPc = "idle"
  /\ IF selectedScrappedMovieIds = {}
       THEN /\ toast' = InfoNoSelection
            /\ UNCHANGED <<selectedScrappedMovieIds, isBatchInserting, loadingFirebaseMovies,
                           getDocsPending, batchVars, historyVars>>
       ELSE LET mti == SelectSeq(scrappedMovies,
                                 LAMBDA movie : movie.id \in selectedScrappedMovieIds)
            IN /\ batchSelected' = selectedScrappedMovieIds
               /\ batchListed' = selectedScrappedMovieIds \cap Ids(scrappedMovies)
               /\ insertOk' = {}
               /\ deleteCalls' = << >>
               /\ deleteOk' = {}
               /\ LoopFrom(0, mti, 0, 0, NoToast, << >>, isBatchInserting)
  /\ UNCHANGED <<otherVars, API_SCRAPPED_MOVIES_BASE_URL, storeVars, mounted, firebaseMovies,
                 scrappedMovies, loadingScrappedMovies, dialogVars, getPending,
                 deleting, putPending>>

\* faulty variant: the handler without its early return on an empty selection
handleInsertSelected_NoEarlyReturn ==
  /\ batchPc = "idle"
  /\ LET mti == SelectSeq(scrappedMovies,
                          LAMBDA movie : movie.id \in selectedScrappedMovieIds)
     IN /\ batchSelected' = selectedScrappedMovieIds
        /\ batchListed' = selectedScrappedMovieIds \cap Ids(scrappedMovies)
        /\ insertOk' = {}
        /\ deleteCalls' = << >>
        /\ deleteOk' = {}
        /\ LoopFrom(0, mti, 0, 0, NoToast, << >>, TRUE)
  /\ UNCHANGED <<otherVars, API_SCRAPPED_MOVIES_BASE_URL, storeVars, mounted, firebaseMovies,
                 scrappedMovies, loadingScrappedMovies, dialogVars, getPending,
                 deleting, putPending>>

\* the handler, from its entry to its first await (or to its return).
\* One run of the loop is followed at a time; a call that finds the
\* selection empty returns at once, whatever else is in progress.
handleInsertSelectedScrappedMoviesToFirebase ==
  /\ selectedScrappedMovieIds # {} => batchPc = "idle"
  /\ IF selectedScrappedMovieIds = {}
       THEN /\ toast' = InfoNoSelection
            /\ UNCHANGED <<selectedScrappedMovieIds, isBatchInserting, loadingFirebaseMovies,
                           getDocsPending, batchVars, historyVars>>
       ELSE LET mti == SelectSeq(scrappedMovies,
                                 LAMBDA movie : movie.id \in selectedScrappedMovieIds)
            IN /\ batchSelected' = selectedScrappedMovieIds
               /\ batchListed' = selectedScrappedMovieIds \cap Ids(scrappedMovies)
               /\ insertOk' = {}
               /\ deleteCalls' = << >>
               /\ deleteOk' = {}
               /\ LoopFrom(0, mti, 0, 0, NoToast, << >>, TRUE)
  /\ UNCHANGED <<otherVars, API_SCRAPPED_MOVIES_BASE_URL, storeVars, mounted, firebaseMovies,
                 scrappedMovies, loadingScrappedMovies, dialogVars, getPending,
                 deleting, putPending>>

\* faulty variant: the delete request is sent whether or not addDoc succeeded
AddDocResolve_DeletesAnyway(ok) ==
  /\ batchPc = "awaitInsert"
  /\ ok => FreeAutoIds # {}
  /\ API_SCRAPPED_MOVIES_BASE_URL # NoUrl
  /\ LET movie == moviesToInsert[idx]
     IN /\ IF ok
             THEN /\ primaryStore' = primaryStore @@ (NewDocId :> firebaseMovieData(movie))
                  /\ migratedFrom' = migratedFrom @@ (NewDocId :> movie.id)
                  /\ insertOk' = insertOk \cup {movie.id}
                  /\ successCount' = successCount + 1
                  /\ failCount' = failCount
             ELSE /\ UNCHANGED <<primaryStore, migratedFrom, insertOk, successCount>>
                  /\ failCount' = failCount + 1
        /\ batchPc' = "awaitDelete"
        /\ deleteCalls' = Append(deleteCalls, movie.id)
        /\ toast' = NoToast
        /\ UNCHANGED <<moviesToInsert, idx, insertCalls, isBatchInserting,
                       selectedScrappedMovieIds, loadingFirebaseMovies, getDocsPending>>
  /\ UNCHANGED <<otherVars, API_SCRAPPED_MOVIES_BASE_URL, scrapeStore, everMigrated, mounted,
                 firebaseMovies, scrappedMovies, loadingScrappedMovies, dialogVars,
                 getPending, deleting, putPending, batchSelected, batchListed, deleteOk>>

\* faulty variant: an addDoc error is not caught in the loop and ends the handler
AddDocResolve_Throws(ok) ==
  /\ batchPc = "awaitInsert"
  /\ ok => FreeAutoIds # {}
  /\ LET movie == moviesToInsert[idx]
     IN IF ok
          THEN /\ primaryStore' = primaryStore @@ (NewDocId :> firebaseMovieData(movie))
               /\ migratedFrom' = migratedFrom @@ (NewDocId :> movie.id)
               /\ insertOk' = insertOk \cup {movie.id}
               /\ batchPc' = "awaitDelete"
               /\ successCount' = successCount + 1
               /\ deleteCalls' = Append(deleteCalls, movie.id)
               /\ toast' = NoToast
               /\ UNCHANGED <<moviesToInsert, idx, failCount, insertCalls,
                              isBatchInserting, selectedScrappedMovieIds,
                              loadingFirebaseMovies, getDocsPending>>
          ELSE /\ batchPc' = "idle"
               /\ moviesToInsert' = << >>
               /\ idx' = 0
               /\ successCount' = 0
               /\ failCount' = 0
               /\ toast' = NoToast
               /\ UNCHANGED <<primaryStore, migratedFrom, insertOk, deleteCalls,
                              insertCalls, isBatchInserting, selectedScrappedMovieIds,
                              loadingFirebaseMovies, getDocsPending>>
  /\ UNCHANGED <<otherVars, API_SCRAPPED_MOVIES_BASE_URL, scrapeStore, everMigrated, mounted,
                 firebaseMovies, scrappedMovies, loadingScrappedMovies, dialogVars,
                 getPending, deleting, putPending, batchSelected, batchListed, deleteOk>>

\* faulty variant: the delete request is sent but not awaited, and the loop
\* goes on to the next record while it is in flight
AddDocResolve_DeleteNotAwaited(ok) ==
  /\ batchPc = "awaitInsert"
  /\ ok => FreeAutoIds # {}
  /\ LET movie == moviesToInsert[idx]
     IN IF ok
          THEN /\ primaryStore' = primaryStore @@ (NewDocId :> firebaseMovieData(movie))
               /\ migratedFrom' = migratedFrom @@ (NewDocId :> movie.id)
               /\ insertOk' = insertOk \cup {movie.id}
               /\ deleteCalls' = Append(deleteCalls, movie.id)
               /\ LoopFrom(idx, moviesToInsert, successCount + 1, failCount,
                           NoToast, insertCalls, isBatchInserting)
          ELSE /\ LoopFrom(idx, moviesToInsert, successCount, failCount + 1,
                           NoToast, insertCalls, isBatchInserting)
               /\ UNCHANGED <<primaryStore, migratedFrom, insertOk, deleteCalls>>
  /\ UNCHANGED <<otherVars, API_SCRAPPED_MOVIES_BASE_URL, scrapeStore, everMigrated, mounted,
                 firebaseMovies, scrappedMovies, loadingScrappedMovies, dialogVars,
                 getPending, deleting, putPending, batchSelected, batchListed, deleteOk>>

\* addDoc returns (ok) or throws
AddDocResolve(ok) ==
  /\ batchPc = "awaitInsert"
  /\ ok => FreeAutoIds # {}
  /\ LET movie == moviesToInsert[idx]
     IN IF ok
          THEN /\ primaryStore' = primaryStore @@ (NewDocId :> firebaseMovieData(movie))
               /\ migratedFrom' = migratedFrom @@ (NewDocId :> movie.id)
               /\ insertOk' = insertOk \cup {movie.id}
               /\ IF API_SCRAPPED_MOVIES_BASE_URL = NoUrl
                    THEN /\ deleteCalls' = deleteCalls
                         /\ LoopFrom(idx, moviesToInsert, successCount + 1, failCount,
                                     WarningNotDeleted, insertCalls, isBatchInserting)
                    ELSE /\ batchPc' = "awaitDelete"
                         /\ successCount' = successCount + 1
                         /\ deleteCalls' = Append(deleteCalls, movie.id)
                         /\ toast' = NoToast
                         /\ UNCHANGED <<moviesToInsert, idx, failCount, insertCalls,
                                        isBatchInserting, selectedScrappedMovieIds,
                                        loadingFirebaseMovies, getDocsPending>>
          ELSE /\ LoopFrom(idx, moviesToInsert, successCount, failCount + 1,
                           NoToast, insertCalls, isBatchInserting)
               /\ UNCHANGED <<primaryStore, migratedFrom, insertOk, deleteCalls>>
  /\ UNCHANGED <<otherVars, API_SCRAPPED_MOVIES_BASE_URL, scrapeStore, everMigrated, mounted,
                 firebaseMovies, scrappedMovies, loadingScrappedMovies, dialogVars,
                 getPending, deleting, putPending, batchSelected, batchListed, deleteOk>>

\* faulty variant: the record leaves the local list whether or not the delete succeeded
AxiosDeleteResolve_RemovesAnyway(ok) ==
  /\ batchPc = "awaitDelete"
  /\ LET movie == moviesToInsert[idx]
     IN IF ok
          THEN /\ scrapeStore' = Without(scrapeStore, movie.id)
               /\ scrappedMovies' = FilterOut(scrappedMovies, movie.id)
               /\ deleteOk' = deleteOk \cup {movie.id}
               /\ everMigrated' = everMigrated \cup {movie.id}
               /\ LoopFrom(idx, moviesToInsert, successCount, failCount,
                           NoToast, insertCalls, isBatchInserting)
          ELSE /\ scrappedMovies' = FilterOut(scrappedMovies, movie.id)
               /\ UNCHANGED <<scrapeStore, deleteOk, everMigrated>>
               /\ LoopFrom(idx, moviesToInsert, successCount, failCount,
                           WarningNotDeleted, insertCalls, isBatchInserting)
  /\ UNCHANGED <<otherVars, API_SCRAPPED_MOVIES_BASE_URL, primaryStore, migratedFrom, mounted,
                 firebaseMovies, loadingScrappedMovies, dialogVars, getPending, deleting,
                 putPending, batchSelected, batchListed, insertOk, deleteCalls>>

\* the batch's axios.delete returns (ok) or throws
AxiosDeleteResolve(ok) ==
  /\ batchPc = "awaitDelete"
  /\ LET movie == moviesToInsert[idx]
     IN IF ok
          THEN /\ scrapeStore' = Without(scrapeStore, movie.id)
               /\ scrappedMovies' = FilterOut(scrappedMovies, movie.id)
               /\ deleteOk' = deleteOk \cup {movie.id}
               /\ everMigrated' = everMigrated \cup {movie.id}
               /\ LoopFrom(idx, moviesToInsert, successCount, failCount,
                           NoToast, insertCalls, isBatchInserting)
          ELSE /\ UNCHANGED <<scrapeStore, scrappedMovies, deleteOk, everMigrated>>
               /\ LoopFrom(idx, moviesToInsert, successCount, failCount,
                           WarningNotDeleted, insertCalls, isBatchInserting)
  /\ UNCHANGED <<otherVars, API_SCRAPPED_MOVIES_BASE_URL, primaryStore, migratedFrom, mounted,
                 firebaseMovies, loadingScrappedMovies, dialogVars, getPending, deleting,
                 putPending, batchSelected, batchListed, insertOk, deleteCalls>>

\* ---- the rendered page --------------------------------------------------
\* if (loadingFirebaseMovies || loadingScrappedMovies) return <spinner>:
\* the page and the dialog exist only when neither list is loading
PageRendered == mounted /\ ~loadingFirebaseMovies /\ ~loadingScrappedMovies
ControlsRendered == PageRendered /\ ~isScrappedMovieDialogOpen

\* the checkbox of a listed row; checked is the negation of what it shows
ClickCheckbox(movie) ==
  /\ ControlsRendered
  /\ movie \in Range(scrappedMovies)
  /\ handleToggleScrappedMovieSelection(movie.id, movie.id \notin selectedScrappedMovieIds)

\* the Delete action of a listed row
ClickDelete(movie) ==
  /\ ControlsRendered
  /\ movie \in Range(scrappedMovies)
  /\ deleting = Undefined
  /\ handleDeleteScrappedMovie(movie.id)

\* the Edit button of a listed row
ClickEdit(movie) ==
  /\ ControlsRendered
  /\ movie \in Range(scrappedMovies)
  /\ handleEditScrappedMovie(movie)

\* the form of the open dialog is submitted with some name typed in
SubmitDialog(name) ==
  /\ PageRendered
  /\ isScrappedMovieDialogOpen
  /\ putPending = NoMovie
  /\ handleSubmit(selectedScrappedMovie, name)

\* disabled={selectedScrappedMovieIds.size === 0 || isBatchInserting}
ClickInsertSelected ==
  /\ ControlsRendered
  /\ ~(selectedScrappedMovieIds = {} \/ isBatchInserting)
  /\ handleInsertSelectedScrappedMoviesToFirebase

\* The page without its edit dialog: what the operator can do from the list
\* of scrapped movies, and the store calls returning.
Next ==
  \/ Mount
  \/ \E ok \in BOOLEAN : GetDocsResolve(ok)
  \/ \E ok \in BOOLEAN : GetResolve(ok)
  \/ \E movie \in Movie : ClickCheckbox(movie)
  \/ \E movie \in Movie : ClickDelete(movie)
  \/ \E ok \in BOOLEAN : DeleteResolve(ok)
  \/ ClickInsertSelected
  \/ \E ok \in BOOLEAN : AddDocResolve(ok)
  \/ \E ok \in BOOLEAN : AxiosDeleteResolve(ok)

Spec == Init /\ [][Next]_vars

\* ---- the handlers called as functions ----------------------------------
\* The handlers of the rendered page called with any argument, whatever the
\* rendered controls offer: a handler's own conditions are then all that
\* guards it.
CallToggle(movieId, isChecked) ==
  /\ ControlsRendered
  /\ handleToggleScrappedMovieSelection(movieId, isChecked)

CallDelete(movieId) ==
  /\ ControlsRendered
  /\ deleting = Undefined
  /\ handleDeleteScrappedMovie(movieId)

CallEdit(movie) ==
  /\ ControlsRendered
  /\ handleEditScrappedMovie(movie)

CallSubmit(name) ==
  /\ PageRendered
  /\ putPending = NoMovie
  /\ handleSubmit(selectedScrappedMovie, name)

CallInsertSelected ==
  /\ ControlsRendered
  /\ handleInsertSelectedScrappedMoviesToFirebase

\* the batch handler called directly, besides the operator's actions
NextHandlers ==
  \/ Next
  \/ CallInsertSelected

SpecHandlers == Init /\ [][NextHandlers]_vars

\* The page with its edit dialog, and every handler also called directly
NextAll ==
  \/ NextHandlers
  \/ \E movieId \in ScrapeIds, isChecked \in BOOLEAN : CallToggle(movieId, isChecked)
  \/ \E movieId \in ScrapeIds : CallDelete(movieId)
  \/ \E movie \in Movie : ClickEdit(movie)
  \/ \E name \in Names : SubmitDialog(name)
  \/ PageRendered /\ CloseDialog
  \/ \E ok \in BOOLEAN : PutResolve(ok)
  \/ \E movie \in Movie : CallEdit(movie)
  \/ \E name \in Names : CallSubmit(name)

SpecAll == Init /\ [][NextAll]_vars

\* ---- properties of the batch migration ----------------------------------
SummaryShown == toast.title = "Batch Insertion Complete"

\* a step of the batch handler that works on a non-empty selection
BatchStep ==
  \/ selectedScrappedMovieIds # {} /\ handleInsertSelectedScrappedMoviesToFirebase
  \/ \E ok \in BOOLEAN : AddDocResolve(ok)
  \/ \E ok \in BOOLEAN : AxiosDeleteResolve(ok)

\* records of the batch by outcome, once their calls have returned
Migrated == insertOk \cap deleteOk
Duplicated == insertOk \ deleteOk
InsertFailed == Range(insertCalls) \ insertOk

\* C1: within a batch a delete of record r is issued only after the insert
\* of r has succeeded in that batch; when the insert of r fails, the step
\* issues no delete and leaves the scrape store and the local list as they
\* are, so r is still listed and selectable.
C1_DeleteOnlyAfterInsert ==
  [][ /\ Range(deleteCalls') \subseteq insertOk'
      /\ AddDocResolve(FALSE) =>
           /\ deleteCalls' = deleteCalls
           /\ scrapeStore' = scrapeStore
           /\ scrappedMovies' = scrappedMovies
           /\ moviesToInsert[idx].id \notin Range(deleteCalls')
    ]_vars

\* a batch in which the insert of one record failed and that record is still
\* in the scrape store and in the local list, while another was deleted
C1_Witness ==
  \E i \in DOMAIN insertCalls :
    /\ i < Len(insertCalls) \/ batchPc = "idle"
    /\ insertCalls[i] \notin insertOk
    /\ insertCalls[i] \in DOMAIN scrapeStore
    /\ insertCalls[i] \in Ids(scrappedMovies)
    /\ deleteOk # {}

\* C2: every scrape record that a batch inserted and deleted is absent from
\* the scrape store and has exactly one copy in the primary store.
C2_ExactlyOnce ==
  \A r \in everMigrated :
    /\ r \notin DOMAIN scrapeStore
    /\ Cardinality({d \in DOMAIN primaryStore : migratedFrom[d] = r}) = 1

C4_SummaryPartition ==
  SummaryShown =>
    /\ toast.counts[1] = Cardinality(Migrated)
    /\ toast.counts[2] = Cardinality(InsertFailed)

\* C5: whatever each insert or delete call returns, the batch goes on to the
\* next record or, after the last one, to its completion; at completion every
\* selected record of the local list has had its insert attempted exactly once.
C5_FailureIsolation ==
  [][ BatchStep =>
        IF batchPc' = "idle"
          THEN /\ SummaryShown'
               /\ ~isBatchInserting'
               /\ idx = Len(moviesToInsert)
               /\ Range(insertCalls') = batchListed'
               /\ Len(insertCalls') = Cardinality(batchListed')
          ELSE /\ isBatchInserting'
               /\ Len(insertCalls') = idx'
               /\ Range(insertCalls') \subseteq batchListed'
               /\ Cardinality(Range(insertCalls')) = idx'
               /\ batchPc' = "awaitInsert" => idx' = idx + 1
    ]_vars

\* a batch of two records completed after a failed insert and a failed delete
C5_Witness ==
  /\ SummaryShown
  /\ Len(insertCalls) = 2
  /\ InsertFailed # {}
  /\ Duplicated # {}

\* C6: every selected identifier that has no record in the local list is
\* counted among the failures the summary reports.
C6_MissingCountedAsFailure ==
  SummaryShown => toast.counts[2] >= Cardinality(batchSelected \ batchListed)

C8_FreshIdentifier ==
  /\ \A d \in DOMAIN primaryStore :
       /\ d \notin ScrapeIds
       /\ d # migratedFrom[d]
       /\ primaryStore[d].id = Undefined
  /\ \A m \in FirebaseListing : m.id \notin ScrapeIds
  /\ \A m \in firebaseMovies : m.id \notin ScrapeIds

\* the refreshed local list shows a record that the batch copied
C8_Witness ==
  /\ firebaseMovies # {}
  /\ \E d \in DOMAIN primaryStore : migratedFrom[d] \in ScrapeIds

\* C9: a step of the batch leaves the selection set as it is while records
\* are processed, and empties it when the batch completes.
C9_SelectionClearedAtEnd ==
  [][ BatchStep =>
        IF batchPc' = "idle"
          THEN selectedScrappedMovieIds' = {}
          ELSE selectedScrappedMovieIds' = selectedScrappedMovieIds
    ]_vars

\* a batch started on two selected records has completed with one record
\* migrated and one failed, and the selection is empty
C9_Witness ==
  /\ SummaryShown
  /\ Cardinality(batchSelected) = 2
  /\ Migrated # {}
  /\ InsertFailed # {}
  /\ selectedScrappedMovieIds = {}

\* C10: without a configured base address no request to the scrape store is
\* ever in flight or has been sent, the scrape store and the local list stay
\* as they were, and the batch writes nothing to the primary store.
C10_NoCallWithoutBaseUrl ==
  API_SCRAPPED_MOVIES_BASE_URL = NoUrl =>
    /\ ~getPending
    /\ deleting = Undefined
    /\ putPending = NoMovie
    /\ batchPc = "idle"
    /\ insertCalls = << >>
    /\ deleteCalls = << >>
    /\ primaryStore = << >>
    /\ DOMAIN scrapeStore = ScrapeIds
    /\ scrappedMovies = << >>

\* without a base address a batch was run on a selection and has completed
C10_Witness ==
  /\ API_SCRAPPED_MOVIES_BASE_URL = NoUrl
  /\ SummaryShown
  /\ batchSelected # {}

\* C15: during a batch the local lists follow each successful step at once:
\* a successful delete removes the record from the local scrape list, and a
\* successful insert puts the new record into the local primary list.
C15_LocalListsIncremental ==
  [][ /\ AxiosDeleteResolve(TRUE) => moviesToInsert[idx].id \notin Ids(scrappedMovies')
      /\ AddDocResolve(TRUE) => NewDocId \in {m.id : m \in firebaseMovies'}
    ]_vars

\* the last element of a non-empty sequence
Last(s) == s[Len(s)]

\* C16: a batch has one store call in flight at a time.  The insert of the
\* next record is issued only by the step in which the previous record's
\* insert failed, its delete returned, or its delete was skipped; a delete is
\* issued only by the step in which the insert of the same record succeeded;
\* and the counters account each outcome to the record just processed.
C16_OnePairAtATime ==
  [][ /\ insertCalls' # insertCalls /\ insertCalls' # << >> =>
           /\ insertCalls' = Append(insertCalls, Last(insertCalls'))
              \/ (batchPc = "idle" /\ Len(insertCalls') = 1)
           /\ \/ batchPc = "idle"
              \/ AddDocResolve(FALSE)
              \/ AddDocResolve(TRUE) /\ API_SCRAPPED_MOVIES_BASE_URL = NoUrl
              \/ \E ok \in BOOLEAN :
                   AxiosDeleteResolve(ok) /\ Last(deleteCalls) = Last(insertCalls)
      /\ deleteCalls' # deleteCalls /\ deleteCalls' # << >> =>
           /\ AddDocResolve(TRUE)
           /\ deleteCalls' = Append(deleteCalls, Last(insertCalls))
           /\ insertCalls' = insertCalls
      /\ batchPc' = "awaitInsert" =>
           /\ successCount' = Cardinality(insertOk')
           /\ successCount' + failCount' = Len(insertCalls') - 1
      /\ batchPc' = "awaitDelete" =>
           /\ successCount' = Cardinality(insertOk')
           /\ successCount' + failCount' = Len(insertCalls')
           /\ Last(deleteCalls') = Last(insertCalls')
    ]_vars

\* the second record's insert is in flight after the first record's insert
\* succeeded and its delete failed
C16_Witness ==
  /\ batchPc = "awaitInsert"
  /\ Len(insertCalls) = 2
  /\ insertCalls[1] \in insertOk \ deleteOk
  /\ deleteCalls = <<insertCalls[1]>>

\* ---- the page when every store call of a batch returns -----------------
BatchCallReturns ==
  \/ \E ok \in BOOLEAN : AddDocResolve(ok)
  \/ \E ok \in BOOLEAN : AxiosDeleteResolve(ok)

SpecFair == Init /\ [][Next]_vars /\ WF_vars(BatchCallReturns)

\* C17: when every store call returns, a started batch completes: the
\* in-progress flag is false again with the summary shown and every selected
\* record of the local list attempted; and no step outside the batch handler
\* touches the handler's position, its list or its flag while it runs.
C17_BatchCompletes ==
  /\ isBatchInserting ~>
       (~isBatchInserting /\ SummaryShown /\ Range(insertCalls) = batchListed)
  /\ [][ (batchPc # "idle" /\ ~BatchStep) =>
           /\ UNCHANGED <<batchPc, moviesToInsert, idx, successCount, failCount>>
           /\ isBatchInserting' = isBatchInserting
       ]_vars

\* a batch is in progress and the operator has just deleted a record of it
C17_Witness ==
  /\ isBatchInserting
  /\ \E i \in DOMAIN moviesToInsert : moviesToInsert[i].id \notin Ids(scrappedMovies)
  /\ Len(moviesToInsert) = 2 /\ idx = 1

\* ---- getDashboardStats (src/utils/firebase.ts) --------------------------
RecentLimit == 5

\* a Firestore Timestamp and its toDate(): the date in milliseconds
Timestamp(seconds, nanoseconds) == [seconds |-> seconds, nanoseconds |-> nanoseconds]
toDate(ts) == ts.seconds * 1000 + (ts.nanoseconds \div 1000000)
Stamps == {Timestamp(sec, 0) : sec \in 1..MaxSeconds} \cup {Timestamp(1, 500000000)}

\* a field of a document: None when the document does not have it
None == << >>
Some(v) == <<v>>
Has(field) == field # None
Val(field) == field[1]

\* the data of a document of 'movies', as far as getDashboardStats reads it
SnapshotDoc(isSeries, relationship, comments, uploadDate) ==
  [isSeries |-> isSeries, relationship |-> relationship,
   comments |-> comments, uploadDate |-> uploadDate]
CountingDocs ==
  {SnapshotDoc(sr, rel, cs, Some(Timestamp(1, 0))) :
     sr \in {None, Some(TRUE), Some(FALSE)},
     rel \in {None, Some(""), Some("r1"), Some("r2")},
     cs \in {None, Some(<<"c1">>), Some(<<"c1", "c2">>)}}
RecencyDocs ==
  {SnapshotDoc(Some(FALSE), None, None, ud) : ud \in {Some(ts) : ts \in Stamps} \cup {None}}
SeqsUpTo(S, n) == UNION {[1..k -> S] : k \in 0..n}

\* JavaScript truthiness of a boolean field and of a string field
TruthyFlag(field) == Has(field) /\ Val(field)
TruthyString(field) == Has(field) /\ Val(field) # ""

\* moviesSnapshot.docs.map(doc => ({ id: doc.id, ...doc.data(), uploadDate: ..., comments: ... }))
\* the document at position i of the snapshot has the id <<"doc", i>>
MappedMovies ==
  [i \in DOMAIN moviesSnapshot |->
     [id |-> <<"doc", i>>,
      isSeries |-> moviesSnapshot[i].isSeries,
      relationship |-> moviesSnapshot[i].relationship,
      uploadDate |-> IF Has(moviesSnapshot[i].uploadDate)
                       THEN toDate(Val(moviesSnapshot[i].uploadDate))
                       ELSE clock,
      comments |-> IF Has(moviesSnapshot[i].comments)
                     THEN Val(moviesSnapshot[i].comments)
                     ELSE << >>]]

\* movies.reduce((acc, movie) => acc + (movie.comments?.length || 0), 0)
RECURSIVE SumComments(_)
SumComments(movies) ==
  IF movies = << >> THEN 0
  ELSE Len(Head(movies).comments) + SumComments(Tail(movies))

\* faulty variant: the comparator is reversed, oldest first
InsertByUploadDate_Ascending(sorted, movie) ==
  LET before == Cardinality({j \in DOMAIN sorted : sorted[j].uploadDate <= movie.uploadDate})
  IN SubSeq(sorted, 1, before) \o <<movie>> \o SubSeq(sorted, before + 1, Len(sorted))

\* movies.sort((a, b) => b.uploadDate.getTime() - a.uploadDate.getTime()):
\* a stable sort, latest first; one record is put after the sorted records
\* that are not earlier than it
InsertByUploadDate(sorted, movie) ==
  LET before == Cardinality({j \in DOMAIN sorted : sorted[j].uploadDate >= movie.uploadDate})
  IN SubSeq(sorted, 1, before) \o <<movie>> \o SubSeq(sorted, before + 1, Len(sorted))

RECURSIVE SortByUploadDate(_, _)
SortByUploadDate(sorted, movies) ==
  IF movies = << >> THEN sorted
  ELSE SortByUploadDate(InsertByUploadDate(sorted, Head(movies)), Tail(movies))

\* .slice(0, 5)
Slice(s, n) == SubSeq(s, 1, IF Len(s) < n THEN Len(s) ELSE n)

\* faulty variant: every record with a relationship is counted, not every
\* distinct relationship
StatsOf_CountsEveryEpisode(movies) ==
  LET seriesEpisodes == SelectSeq(movies, LAMBDA movie : TruthyFlag(movie.isSeries))
  IN [totalMovies |-> Len(movies),
      totalSeries |-> Len(SelectSeq(seriesEpisodes,
                                    LAMBDA episode : TruthyString(episode.relationship))),
      totalEpisodes |-> Len(seriesEpisodes),
      totalUsers |-> usersSnapshot,
      totalComments |-> SumComments(movies),
      recentMovies |-> Slice(SortByUploadDate(<< >>, movies), RecentLimit),
      state |-> "returned"]

\* lines 121-151: the statistics of the mapped records
StatsOf(movies) ==
  LET seriesEpisodes == SelectSeq(movies, LAMBDA movie : TruthyFlag(movie.isSeries))
      uniqueSeriesRelationships ==
        {seriesEpisodes[i].relationship :
           i \in {j \in DOMAIN seriesEpisodes : TruthyString(seriesEpisodes[j].relationship)}}
  IN [totalMovies |-> Len(movies),
      totalSeries |-> Cardinality(uniqueSeriesRelationships),
      totalEpisodes |-> Len(seriesEpisodes),
      totalUsers |-> usersSnapshot,
      totalComments |-> SumComments(movies),
      recentMovies |-> Slice(SortByUploadDate(<< >>, movies), RecentLimit),
      state |-> "returned"]

\* one call: both snapshots are read, then the statistics are computed; or
\* one of the two getDocs fails and the call rejects
getDashboardStats(ok) ==
  /\ stats.state = "none"
  /\ stats' = IF ok THEN StatsOf(MappedMovies) ELSE [NoStats EXCEPT !.state = "rejected"]
  /\ UNCHANGED <<moviesSnapshot, usersSnapshot, clock>>
  /\ UNCHANGED <<moviesPageVars, authVars, commentVars, payloadVars, slugVars, scrapVars, commentsPageVars, movieDialogVars>>

\* getDashboardStats applied to any record set of the bounded families
InitStats ==
  /\ MoviesPageIdle
  /\ MovieDialogIdle
  /\ CommentsPageIdle
  /\ ScrapIdle
  /\ SlugIdle
  /\ PayloadIdle
  /\ AuthIdle
  /\ CommentsIdle
  /\ moviesSnapshot \in SeqsUpTo(CountingDocs, MaxCountDocs) \cup SeqsUpTo(RecencyDocs, MaxRecentDocs)
  /\ usersSnapshot \in {0, 1}
  /\ clock \in {1200, 5000}
  /\ stats = NoStats

NextStats == \E ok \in BOOLEAN : getDashboardStats(ok)

SpecStats == InitStats /\ [][NextStats]_vars

\* C11: the counts getDashboardStats returns are the number of records, the
\* number of records with isSeries true, the number of distinct non-empty
\* relationship keys among those, and the sum of the lengths of the comment
\* lists.
C11_Counts ==
  stats.state = "returned" =>
    LET series == {i \in DOMAIN moviesSnapshot : moviesSnapshot[i].isSeries = Some(TRUE)}
        keys == {moviesSnapshot[i].relationship : i \in series} \ {None, Some("")}
        commentsOf(i) == IF moviesSnapshot[i].comments = None THEN 0
                         ELSE Len(Val(moviesSnapshot[i].comments))
        sumTo[n \in 0..Len(moviesSnapshot)] ==
          IF n = 0 THEN 0 ELSE sumTo[n - 1] + commentsOf(n)
    IN /\ stats.totalMovies = Len(moviesSnapshot)
       /\ stats.totalEpisodes = Cardinality(series)
       /\ stats.totalSeries = Cardinality(keys)
       /\ stats.totalComments = sumTo[Len(moviesSnapshot)]

\* two series records share a relationship key, with comments on both
C11_Witness ==
  /\ stats.state = "returned"
  /\ stats.totalMovies = 2
  /\ stats.totalEpisodes = 2
  /\ stats.totalSeries = 1
  /\ stats.totalComments = 3

\* C12: recentMovies has min(5, number of records) entries, latest creation
\* date first, and no record left out is later than a record it contains.
C12_RecentMovies ==
  stats.state = "returned" =>
    LET recent == stats.recentMovies
        movies == MappedMovies
        included == {recent[i].id : i \in DOMAIN recent}
    IN /\ Len(recent) = IF Len(movies) < 5 THEN Len(movies) ELSE 5
       /\ Cardinality(included) = Len(recent)
       /\ \A i \in DOMAIN recent : \E j \in DOMAIN movies : movies[j] = recent[i]
       /\ \A i, j \in DOMAIN recent : i < j => recent[i].uploadDate >= recent[j].uploadDate
       /\ \A j \in DOMAIN movies :
            movies[j].id \notin included =>
              \A i \in DOMAIN recent : movies[j].uploadDate <= recent[i].uploadDate

\* six records, the latest of them last in the snapshot and first in the
\* result, and an older one left out
C12_Witness ==
  /\ stats.state = "returned"
  /\ Len(moviesSnapshot) = 6
  /\ Len(stats.recentMovies) = 5
  /\ stats.recentMovies[1].id = <<"doc", 6>>
  /\ stats.recentMovies[1].uploadDate > stats.recentMovies[5].uploadDate
  /\ \E j \in DOMAIN moviesSnapshot :
       /\ Has(moviesSnapshot[j].uploadDate)
       /\ toDate(Val(moviesSnapshot[j].uploadDate)) < stats.recentMovies[5].uploadDate

\* ---- AuthProvider --------------------------------------------------------
Roles == {"user", "admin"}
Profile == [uid : Uids, role : Roles]
FreeSlots == {slot \in DOMAIN callbacks : callbacks[slot].pc = "done"}

\* faulty variant: the profile of a new account is created as an admin
newProfile_Admin(uid) == [uid |-> uid, role |-> "admin"]

\* lines 55-63: the profile made for an account that has none
newProfile(uid) == [uid |-> uid, role |-> "user"]

\* the auth service reports a change and the callback runs up to its first
\* await (a signed-in user) or to its end (no user)
onAuthStateChanged(currentUser) ==
  /\ currentUser # authCurrentUser
  /\ authCurrentUser' = currentUser
  /\ user' = currentUser
  /\ IF currentUser # NoUser
       THEN /\ FreeSlots # {}
            /\ LET slot == CHOOSE free \in FreeSlots : \A other \in FreeSlots : free <= other
               IN callbacks' = [callbacks EXCEPT ![slot] = [pc |-> "getDoc", uid |-> currentUser]]
            /\ UNCHANGED <<userProfile, isAdmin, loading>>
       ELSE /\ userProfile' = NoProfile
            /\ isAdmin' = FALSE
            /\ loading' = FALSE
            /\ UNCHANGED callbacks
  /\ UNCHANGED <<users, rolesWritten>>
  /\ UNCHANGED <<moviesPageVars, statsVars, commentVars, payloadVars, slugVars, scrapVars, commentsPageVars, movieDialogVars>>

\* the catch block and the end of the callback
ProfileError(slot) ==
  /\ userProfile' = NoProfile
  /\ isAdmin' = FALSE
  /\ loading' = FALSE
  /\ callbacks' = [callbacks EXCEPT ![slot] = Done]

\* getDoc(userDocRef) returns (ok) or throws
GetDocReturns(slot, ok) ==
  /\ callbacks[slot].pc = "getDoc"
  /\ LET uid == callbacks[slot].uid
     IN IF ~ok THEN ProfileError(slot)
        ELSE IF uid \in DOMAIN users
          THEN /\ userProfile' = users[uid]
               /\ isAdmin' = (users[uid].role = "admin")
               /\ loading' = FALSE
               /\ callbacks' = [callbacks EXCEPT ![slot] = Done]
          ELSE /\ callbacks' = [callbacks EXCEPT ![slot].pc = "setDoc"]
               /\ UNCHANGED <<userProfile, isAdmin, loading>>
  /\ UNCHANGED <<authCurrentUser, user, users, rolesWritten>>
  /\ UNCHANGED <<moviesPageVars, statsVars, commentVars, payloadVars, slugVars, scrapVars, commentsPageVars, movieDialogVars>>

\* setDoc(userDocRef, newProfile, { merge: true }) returns (ok) or throws
SetDocReturns(slot, ok) ==
  /\ callbacks[slot].pc = "setDoc"
  /\ LET uid == callbacks[slot].uid
     IN IF ok
          THEN /\ users' = [u \in DOMAIN users \cup {uid} |->
                              IF u = uid THEN newProfile(uid) ELSE users[u]]
               /\ rolesWritten' = rolesWritten \cup {newProfile(uid).role}
               /\ userProfile' = newProfile(uid)
               /\ isAdmin' = FALSE
               /\ loading' = FALSE
               /\ callbacks' = [callbacks EXCEPT ![slot] = Done]
          ELSE /\ ProfileError(slot)
               /\ UNCHANGED <<users, rolesWritten>>
  /\ UNCHANGED <<authCurrentUser, user>>
  /\ UNCHANGED <<moviesPageVars, statsVars, commentVars, payloadVars, slugVars, scrapVars, commentsPageVars, movieDialogVars>>

\* any contents of the collection 'users'
UsersContents ==
  {[u \in DOMAIN roleOf |-> [uid |-> u, role |-> roleOf[u]]] :
     roleOf \in UNION {[present -> Roles] : present \in SUBSET Uids}}

\* the provider over any contents of the collection 'users'
InitAuth ==
  /\ MoviesPageIdle
  /\ MovieDialogIdle
  /\ CommentsPageIdle
  /\ ScrapIdle
  /\ SlugIdle
  /\ PayloadIdle
  /\ StatsIdle
  /\ CommentsIdle
  /\ authCurrentUser = Unresolved
  /\ user = NoUser
  /\ userProfile = NoProfile
  /\ isAdmin = FALSE
  /\ loading = TRUE
  /\ users \in UsersContents
  /\ callbacks = [slot \in 1..MaxPending |-> Done]
  /\ rolesWritten = {}

NextAuth ==
  \/ \E currentUser \in Uids \cup {NoUser} : onAuthStateChanged(currentUser)
  \/ \E slot \in 1..MaxPending, ok \in BOOLEAN : GetDocReturns(slot, ok)
  \/ \E slot \in 1..MaxPending, ok \in BOOLEAN : SetDocReturns(slot, ok)

SpecAuth == InitAuth /\ [][NextAuth]_vars

\* C13: a callback for a signed-in user without a stored profile goes on to
\* create one, and the profile it creates has the role 'user'; the client
\* never writes another role, and no step gives an existing profile that is
\* not an admin's the role 'admin'.
C13_RoleNeverEscalated ==
  [][ /\ rolesWritten' \subseteq {"user"}
      /\ \A slot \in 1..MaxPending :
           /\ (GetDocReturns(slot, TRUE) /\ callbacks[slot].uid \notin DOMAIN users)
                => callbacks'[slot] = [pc |-> "setDoc", uid |-> callbacks[slot].uid]
           /\ SetDocReturns(slot, TRUE)
                => users'[callbacks[slot].uid].role = "user"
      /\ \A u \in DOMAIN users :
           /\ u \in DOMAIN users'
           /\ users[u].role # "admin" => users'[u].role # "admin"
    ]_vars

\* the client has created the profile of the signed-in user, with role 'user'
C13_Witness ==
  /\ user \in Uids
  /\ rolesWritten = {"user"}
  /\ user \in DOMAIN users
  /\ users[user].role = "user"
  /\ userProfile = users[user]
  /\ ~isAdmin

\* C19: once the listener has seen a sign-out, user, userProfile and isAdmin
\* are cleared and stay so until the next sign-in: whenever no user is
\* signed in, there is no profile and no admin flag.
C19_SessionStaysCleared ==
  user = NoUser => userProfile = NoProfile /\ ~isAdmin

\* ---- deleteComment (src/utils/firebase.ts) ------------------------------
MovieIds == {"m1", "m2"}
StoredComments == {[id |-> "c1", content |-> "x"], [id |-> "c1", content |-> "y"],
                   [id |-> "c2", content |-> "x"]}
NewIdNames == <<"n1", "n2", "n3">>
NewCommentIds == {NewIdNames[i] : i \in 1..MaxAppends}
CommentIds == {"c1", "c2"} \cup NewCommentIds
CommentIdsOf(comments) == {comments[i].id : i \in DOMAIN comments}

\* faulty variant: only the first comment with the id is taken out
updatedComments_FirstOnly(movieData, commentId) ==
  IF commentId \notin CommentIdsOf(movieData) THEN movieData
  ELSE LET first == CHOOSE i \in DOMAIN movieData :
                      /\ movieData[i].id = commentId
                      /\ \A j \in 1..(i - 1) : movieData[j].id # commentId
       IN SubSeq(movieData, 1, first - 1) \o SubSeq(movieData, first + 1, Len(movieData))

\* movieData.comments.filter(comment => comment.id !== commentId)
updatedComments(movieData, commentId) ==
  SelectSeq(movieData, LAMBDA comment : comment.id # commentId)

\* deleteComment is called and suspends at await getDoc
deleteComment(caller, movieId, commentId) ==
  /\ deleteCommentCalls[caller].pc = "done"
  /\ Cardinality(targeted \cup {<<movieId, commentId>>}) <= MaxTargets
  /\ deleteCommentCalls' = [deleteCommentCalls EXCEPT ![caller] =
       [pc |-> "getDoc", movieId |-> movieId, commentId |-> commentId,
        movieData |-> << >>, updatedComments |-> << >>]]
  /\ targeted' = targeted \cup {<<movieId, commentId>>}
  /\ UNCHANGED <<movieComments, appended, removed>>
  /\ UNCHANGED <<moviesPageVars, statsVars, authVars, payloadVars, slugVars, scrapVars, commentsPageVars, movieDialogVars>>

\* getDoc returns the document as it is now (ok), or throws; a call that
\* finds the document goes on to updateDoc with the filtered list
DeleteCommentGetDoc(caller, ok) ==
  /\ deleteCommentCalls[caller].pc = "getDoc"
  /\ LET call == deleteCommentCalls[caller]
     IN deleteCommentCalls' = [deleteCommentCalls EXCEPT ![caller] =
          IF ok /\ call.movieId \in DOMAIN movieComments
            THEN [call EXCEPT !.pc = "updateDoc",
                              !.movieData = movieComments[call.movieId],
                              !.updatedComments =
                                 updatedComments(movieComments[call.movieId], call.commentId)]
            ELSE NoCall]
  /\ UNCHANGED <<movieComments, appended, targeted, removed>>
  /\ UNCHANGED <<moviesPageVars, statsVars, authVars, payloadVars, slugVars, scrapVars, commentsPageVars, movieDialogVars>>

\* updateDoc(movieRef, { comments: updatedComments }) is applied (ok) or throws
DeleteCommentUpdateDoc(caller, ok) ==
  /\ deleteCommentCalls[caller].pc = "updateDoc"
  /\ LET call == deleteCommentCalls[caller]
     IN IF ok
          THEN /\ movieComments' = [movieComments EXCEPT ![call.movieId] = call.updatedComments]
               /\ removed' = removed \cup
                    {<<call.movieId, cid>> :
                       cid \in CommentIdsOf(movieComments[call.movieId])
                                 \ CommentIdsOf(call.updatedComments)}
          ELSE UNCHANGED <<movieComments, removed>>
  /\ deleteCommentCalls' = [deleteCommentCalls EXCEPT ![caller] = NoCall]
  /\ UNCHANGED <<appended, targeted>>
  /\ UNCHANGED <<moviesPageVars, statsVars, authVars, payloadVars, slugVars, scrapVars, commentsPageVars, movieDialogVars>>

\* another client appends a comment of its own, with a new id, to a record
AppendComment(movieId, commentId) ==
  /\ movieId \in DOMAIN movieComments
  /\ \A other \in appended : other[2] # commentId
  /\ movieComments' = [movieComments EXCEPT ![movieId] =
                         Append(@, [id |-> commentId, content |-> "x"])]
  /\ appended' = appended \cup {<<movieId, commentId>>}
  /\ UNCHANGED <<deleteCommentCalls, targeted, removed>>
  /\ UNCHANGED <<moviesPageVars, statsVars, authVars, payloadVars, slugVars, scrapVars, commentsPageVars, movieDialogVars>>

\* deleteComment over any comment list of record m1, with or without a
\* second record
InitComments ==
  /\ MoviesPageIdle
  /\ MovieDialogIdle
  /\ CommentsPageIdle
  /\ ScrapIdle
  /\ SlugIdle
  /\ PayloadIdle
  /\ StatsIdle
  /\ AuthIdle
  /\ movieComments \in
       {[m \in present |-> IF m = "m1" THEN list ELSE <<[id |-> "c2", content |-> "x"]>>] :
          present \in SUBSET MovieIds, list \in SeqsUpTo(StoredComments, MaxComments)}
  /\ deleteCommentCalls = [caller \in Callers |-> NoCall]
  /\ appended = {}
  /\ targeted = {}
  /\ removed = {}

NextComments ==
  \/ \E caller \in Callers, movieId \in MovieIds, commentId \in CommentIds :
       deleteComment(caller, movieId, commentId)
  \/ \E caller \in Callers, ok \in BOOLEAN : DeleteCommentGetDoc(caller, ok)
  \/ \E caller \in Callers, ok \in BOOLEAN : DeleteCommentUpdateDoc(caller, ok)
  \/ \E movieId \in MovieIds, commentId \in NewCommentIds : AppendComment(movieId, commentId)

SpecComments == InitComments /\ [][NextComments]_vars

\* the comments of a list other than those with the id, in their order
OtherComments(comments, commentId) ==
  SelectSeq(comments, LAMBDA comment : comment.id # commentId)

\* C14: a deleteComment(movieId, commentId) that found the record writes the
\* list it read without any comment whose id is commentId and with the other
\* comments in their order and with their content, so that a record nobody
\* wrote since the read loses exactly those comments; the write leaves every
\* other record as it was; a call that finds no record ends without a write,
\* and no step of a call other than its updateDoc changes the store.
C14_RemovesExactlyTheComment ==
  [][\A caller \in Callers :
       LET call == deleteCommentCalls[caller]
       IN /\ DeleteCommentUpdateDoc(caller, TRUE) =>
               /\ call.movieId \in DOMAIN movieComments
               /\ DOMAIN movieComments' = DOMAIN movieComments
               /\ \A m \in DOMAIN movieComments \ {call.movieId} :
                    movieComments'[m] = movieComments[m]
               /\ call.commentId \notin CommentIdsOf(movieComments'[call.movieId])
               /\ movieComments'[call.movieId] = OtherComments(call.movieData, call.commentId)
               /\ movieComments[call.movieId] = call.movieData =>
                    movieComments'[call.movieId] =
                      OtherComments(movieComments[call.movieId], call.commentId)
          /\ (\E ok \in BOOLEAN : DeleteCommentGetDoc(caller, ok)) =>
               /\ movieComments' = movieComments
               /\ call.movieId \notin DOMAIN movieComments =>
                    deleteCommentCalls'[caller].pc = "done"
          /\ (DeleteCommentUpdateDoc(caller, FALSE)
                \/ \E movieId \in MovieIds, commentId \in CommentIds :
                     deleteComment(caller, movieId, commentId)) =>
               movieComments' = movieComments]_vars

\* a call has taken a comment out of a record that keeps other comments, with
\* no append in between
C14_Witness ==
  /\ appended = {}
  /\ \E r \in removed :
       /\ movieComments[r[1]] # << >>
       /\ r[2] \notin CommentIdsOf(movieComments[r[1]])

\* C20: whatever the interleaving of deleteComment with another deleteComment
\* or with an append on the same record, every comment that was appended and
\* that no call targeted is in the store, and no comment that a deleteComment
\* removed is in the store again.
C20_RemovalIsIndividual ==
  /\ \A a \in appended :
       a \notin targeted => a[2] \in CommentIdsOf(movieComments[a[1]])
  /\ \A r \in removed : r[2] \notin CommentIdsOf(movieComments[r[1]])

\* ---- from the backend's record to the data of addDoc (MoviesPage) -------
\* a date of the backend's JSON, an ISO string: 1970-01-01T00:00:<seconds>.<millis>Z
IsoString(seconds, millis) == [seconds |-> seconds, millis |-> millis]
IsoStrings == {IsoString(sec, ms) : sec \in 0..MaxSeconds, ms \in {0, 999}}
\* new Date(string): the milliseconds since the epoch
newDate(iso) == iso.seconds * 1000 + iso.millis
\* new Date(): later than every date of a record
Clock == {(MaxSeconds + 2) * 1000, (MaxSeconds + 3) * 1000 + 1}
\* Timestamp.fromDate(date)
fromDate(date) == Timestamp(date \div 1000, (date % 1000) * 1000000)

\* the records of response.data: name and isSeries stand for the fields the
\* spreads carry over; a date or the comments may be missing
ResponseComments == [id : {"c1"}, content : {"x"}, timestamp : IsoStrings]
ResponseMovies ==
  [id : ScrapeIds, name : Names, isSeries : BOOLEAN,
   uploadDate : {None} \cup {Some(iso) : iso \in IsoStrings},
   releaseDate : {None} \cup {Some(iso) : iso \in IsoStrings},
   comments : {None} \cup {Some(list) : list \in SeqsUpTo(ResponseComments, MaxPayloadComments)}]

\* the callback of response.data.map in fetchScrappedMovies
scrappedMovieOf(movie, now) ==
  [movie EXCEPT
     !.uploadDate = Some(IF Has(movie.uploadDate) THEN newDate(Val(movie.uploadDate)) ELSE now),
     !.releaseDate = IF Has(movie.releaseDate) THEN Some(newDate(Val(movie.releaseDate)))
                                               ELSE None,
     !.comments = IF Has(movie.comments)
                    THEN [i \in DOMAIN Val(movie.comments) |->
                            [Val(movie.comments)[i] EXCEPT
                               !.timestamp = Some(newDate(Val(movie.comments)[i].timestamp))]]
                    ELSE << >>]

\* faulty variant: the payload is stamped with the time of the migration
firebaseMovieDates_StampsNow(movie, now) ==
  [movie EXCEPT
     !.uploadDate = fromDate(now),
     !.releaseDate = IF Has(movie.releaseDate) THEN Some(fromDate(Val(movie.releaseDate)))
                                               ELSE None,
     !.comments = [i \in DOMAIN movie.comments |->
                     [movie.comments[i] EXCEPT !.timestamp = fromDate(now)]]]

\* the date fields of firebaseMovieData: uploadDate, releaseDate (null when
\* the record has none) and the comments' timestamps as Timestamps
firebaseMovieDates(movie, now) ==
  [movie EXCEPT
     !.uploadDate = fromDate(IF Has(movie.uploadDate) THEN Val(movie.uploadDate) ELSE now),
     !.releaseDate = IF Has(movie.releaseDate) THEN Some(fromDate(Val(movie.releaseDate)))
                                               ELSE None,
     !.comments = [i \in DOMAIN movie.comments |->
                     [movie.comments[i] EXCEPT
                        !.timestamp = fromDate(IF Has(movie.comments[i].timestamp)
                                                 THEN Val(movie.comments[i].timestamp)
                                                 ELSE now)]]]

\* fetchScrappedMovies maps the record of the response for the local list
MapResponse(now) ==
  /\ Has(responseData)
  /\ ~Has(scrappedMoviesData)
  /\ scrappedMoviesData' = Some(scrappedMovieOf(Val(responseData), now))
  /\ UNCHANGED <<responseData, addDocData>>
  /\ UNCHANGED <<moviesPageVars, statsVars, authVars, commentVars, slugVars, scrapVars, commentsPageVars, movieDialogVars>>

\* the batch prepares firebaseMovieData from the local record and calls addDoc
PrepareAddDoc(now) ==
  /\ Has(scrappedMoviesData)
  /\ ~Has(addDocData)
  /\ addDocData' = Some(firebaseMovieDates(firebaseMovieData(Val(scrappedMoviesData)), now))
  /\ UNCHANGED <<responseData, scrappedMoviesData>>
  /\ UNCHANGED <<moviesPageVars, statsVars, authVars, commentVars, slugVars, scrapVars, commentsPageVars, movieDialogVars>>

InitPayload ==
  /\ MoviesPageIdle
  /\ MovieDialogIdle
  /\ CommentsPageIdle
  /\ ScrapIdle
  /\ SlugIdle
  /\ StatsIdle
  /\ AuthIdle
  /\ CommentsIdle
  /\ responseData \in {Some(movie) : movie \in ResponseMovies}
  /\ scrappedMoviesData = None
  /\ addDocData = None

NextPayload ==
  \/ \E now \in Clock : MapResponse(now)
  \/ \E now \in Clock : PrepareAddDoc(now)

SpecPayload == InitPayload /\ [][NextPayload]_vars

\* C18: the data handed to addDoc for a record has the fields of the local
\* scrape record with the same values: the carried fields are equal, the
\* creation timestamp, the release date (none on both sides when the record
\* has none) and every comment's timestamp denote the same instants, the
\* comments are the same ones in the same order; only the id is dropped.
C18_PayloadKeepsFieldValues ==
  Has(addDocData) =>
    LET movie == Val(scrappedMoviesData)
        data == Val(addDocData)
    IN /\ DOMAIN data = DOMAIN movie
       /\ data.id = Undefined
       /\ data.name = movie.name
       /\ data.isSeries = movie.isSeries
       /\ toDate(data.uploadDate) = Val(movie.uploadDate)
       /\ Has(data.releaseDate) = Has(movie.releaseDate)
       /\ Has(movie.releaseDate) =>
            toDate(Val(data.releaseDate)) = Val(movie.releaseDate)
       /\ Len(data.comments) = Len(movie.comments)
       /\ \A i \in DOMAIN movie.comments :
            /\ data.comments[i].id = movie.comments[i].id
            /\ data.comments[i].content = movie.comments[i].content
            /\ toDate(data.comments[i].timestamp) = Val(movie.comments[i].timestamp)

\* a record with a release date, a creation timestamp that is not a whole
\* second and two comments of different times has been handed to addDoc
C18_Witness ==
  /\ Has(addDocData)
  /\ Has(Val(scrappedMoviesData).releaseDate)
  /\ Val(Val(scrappedMoviesData).uploadDate) % 1000 # 0
  /\ Len(Val(addDocData).comments) = 2
  /\ Val(addDocData).comments[1].timestamp # Val(addDocData).comments[2].timestamp

\* ---- the selection and the batch flag of the movies page ----------------
\* C27: in every state of the movies page the selection set holds only
\* identifiers of records that are in the local list of scrape records.
C27_SelectionIsListed == selectedScrappedMovieIds \subseteq Ids(scrappedMovies)

\* disabled={selectedScrappedMovieIds.size === 0 || isBatchInserting}
InsertButtonDisabled == selectedScrappedMovieIds = {} \/ isBatchInserting

\* C28: from the first addDoc of a batch to its completion code the flag
\* isBatchInserting is set and the button that starts a batch is disabled,
\* so a batch is started only when none is in progress and no record is
\* handed to addDoc twice by batches that overlap.
C28_OneBatchAtATime ==
  /\ batchPc # "idle" => isBatchInserting /\ InsertButtonDisabled
  /\ \A i, j \in DOMAIN insertCalls : insertCalls[i] = insertCalls[j] => i = j

\* a batch is waiting for a store call while the page shows its controls and
\* records are still selected
C28_Witness ==
  /\ batchPc = "awaitDelete"
  /\ ControlsRendered
  /\ selectedScrappedMovieIds # {}
  /\ Len(insertCalls) = 2

\* ---- ProtectedRoute over the state of AuthProvider ----------------------
\* what ProtectedRoute renders
ProtectedRoute ==
  IF loading THEN "Loading"
  ELSE IF user = NoUser THEN "Navigate"
  ELSE IF ~isAdmin THEN "AccessDenied"
  ELSE "children"

\* the current user has a stored profile with the role 'admin'
StoredAdmin(uid) == uid \in DOMAIN users /\ users[uid].role = "admin"

\* C25: in every state of AuthProvider isAdmin holds only for a current user
\* whose stored profile has the role 'admin', and the profile in the context
\* is that of the current user: a lookup started for an earlier auth state
\* sets neither for a later one.
C25_AdminIsCurrentAdmin ==
  /\ isAdmin => user # NoUser /\ StoredAdmin(user)
  /\ userProfile # NoProfile => userProfile.uid = user

\* C26: whenever loading is false and a user is signed in, no profile lookup
\* for that user is pending, and ProtectedRoute does not render the Access
\* Denied screen for a signed-in user whose stored role is 'admin'.
C26_AdminNeverDenied ==
  /\ (~loading /\ user # NoUser) =>
       \A slot \in DOMAIN callbacks :
         ~(callbacks[slot].pc # "done" /\ callbacks[slot].uid = user)
  /\ (user # NoUser /\ StoredAdmin(user)) => ProtectedRoute # "AccessDenied"

\* ---- generateSlug (src/utils/firebase.ts, ScrappedMovieDialog.tsx) ------
\* characters of a name: a lowercase letter, an uppercase letter, a digit,
\* a hyphen, a blank and a letter outside a-z
Chars == {"a", "B", "7", "-", " ", "e'"}
AlphaNum == {"a", "b", "7"}
\* String.prototype.toLowerCase
LowerChar(c) == IF c = "B" THEN "b" ELSE c
toLowerCase(s) == [i \in DOMAIN s |-> LowerChar(s[i])]

\* .replace(/[^a-z0-9]/g, '-'): without the +, every character is replaced
RECURSIVE ReplaceEach(_)
ReplaceEach(s) ==
  IF s = << >> THEN << >>
  ELSE <<IF Head(s) \in AlphaNum THEN Head(s) ELSE "-">> \o ReplaceEach(Tail(s))

\* .replace(/[^a-z0-9]+/g, '-'): every maximal run of characters other than
\* a-z and 0-9 becomes one hyphen
RECURSIVE ReplaceRuns(_)
ReplaceRuns(s) ==
  IF s = << >> THEN << >>
  ELSE IF Head(s) \in AlphaNum THEN <<Head(s)>> \o ReplaceRuns(Tail(s))
  ELSE IF Len(s) > 1 /\ s[2] \notin AlphaNum THEN ReplaceRuns(Tail(s))
  ELSE <<"-">> \o ReplaceRuns(Tail(s))

\* .replace(/(^-|-$)+/g, ''): a hyphen at the start and a hyphen at the end
\* are removed (one of each: ^ and $ match only at the ends)
StripEnds(s) ==
  LET a == IF s # << >> /\ Head(s) = "-" THEN Tail(s) ELSE s
  IN IF a # << >> /\ a[Len(a)] = "-" THEN SubSeq(a, 1, Len(a) - 1) ELSE a

\* faulty variant: the first pattern has lost its +
generateSlug_EachChar(name) == StripEnds(ReplaceEach(toLowerCase(name)))

generateSlug(name) == StripEnds(ReplaceRuns(toLowerCase(name)))

\* generateSlug is called with the name
CallGenerateSlug ==
  /\ ~Has(slug)
  /\ slug' = Some(generateSlug(slugName))
  /\ UNCHANGED <<slugName, slugOfSlug>>
  /\ UNCHANGED <<moviesPageVars, statsVars, authVars, commentVars, payloadVars, scrapVars, commentsPageVars, movieDialogVars>>

\* generateSlug is called with the slug it returned
CallGenerateSlugAgain ==
  /\ Has(slug)
  /\ ~Has(slugOfSlug)
  /\ slugOfSlug' = Some(generateSlug(Val(slug)))
  /\ UNCHANGED <<slugName, slug>>
  /\ UNCHANGED <<moviesPageVars, statsVars, authVars, commentVars, payloadVars, scrapVars, commentsPageVars, movieDialogVars>>

InitSlug ==
  /\ MoviesPageIdle
  /\ MovieDialogIdle
  /\ CommentsPageIdle
  /\ ScrapIdle
  /\ StatsIdle
  /\ AuthIdle
  /\ CommentsIdle
  /\ PayloadIdle
  /\ slugName \in SeqsUpTo(Chars, MaxNameLen)
  /\ slug = None
  /\ slugOfSlug = None

NextSlug == CallGenerateSlug \/ CallGenerateSlugAgain

SpecSlug == InitSlug /\ [][NextSlug]_vars

\* C24: for every name, generateSlug returns a string of lowercase letters
\* a-z, digits and hyphens only, with no hyphen at its start or its end and
\* no two hyphens in a row, and generateSlug of that string is the string.
C24_SlugShapeAndIdempotence ==
  /\ Has(slug) =>
       LET out == Val(slug)
       IN /\ \A i \in DOMAIN out : out[i] \in AlphaNum \cup {"-"}
          /\ out # << >> => out[1] # "-" /\ out[Len(out)] # "-"
          /\ \A i \in 1..(Len(out) - 1) : ~(out[i] = "-" /\ out[i + 1] = "-")
  /\ Has(slugOfSlug) => Val(slugOfSlug) = Val(slug)

\* a name with an uppercase letter, with characters outside a-z and 0-9 in a
\* row and at its end has been turned into a slug and the slug into a slug
C24_Witness ==
  /\ Has(slugOfSlug)
  /\ slugName = <<"B", " ", "-", "a">> \/ slugName = <<"-", "B", "e'", " ">>
  /\ Val(slug) \in {<<"b", "-", "a">>, <<"b">>}

\* ---- the scrap commands of the dashboard (src/pages/EpisodesPage.tsx) ---
\* faulty variant: the entry is spread into the commandLoading of the render
\* in which sendScrapCommand was called
StatusUpdate_StaleSpread(prev, seen, source, status) == [seen EXCEPT ![source] = status]

\* setCommandLoading(prev => ({ ...prev, [source]: { status } })); seen is the
\* commandLoading of the render in which sendScrapCommand was called
StatusUpdate(prev, seen, source, status) == [prev EXCEPT ![source] = status]

\* the request of index i taken out of a list of requests
RemoveAt(s, i) == SubSeq(s, 1, i - 1) \o SubSeq(s, i + 1, Len(s))

\* faulty variant: the request is sent without the status being set
sendScrapCommand_NoStatus(source) ==
  /\ Len(scrapRequests[source]) < MaxInFlight
  /\ commandLoading' = commandLoading
  /\ scrapRequests' = [scrapRequests EXCEPT ![source] = Append(@, commandLoading)]
  /\ UNCHANGED <<moviesPageVars, statsVars, authVars, commentVars, payloadVars, slugVars, commentsPageVars, movieDialogVars>>

\* sendScrapCommand up to its await of axios.get
sendScrapCommand(source) ==
  /\ Len(scrapRequests[source]) < MaxInFlight
  /\ commandLoading' = StatusUpdate(commandLoading, commandLoading, source, "scrapping")
  /\ scrapRequests' = [scrapRequests EXCEPT ![source] = Append(@, commandLoading)]
  /\ UNCHANGED <<moviesPageVars, statsVars, authVars, commentVars, payloadVars, slugVars, commentsPageVars, movieDialogVars>>

\* axios.get of a request in flight returns (ok) or throws
ScrapResponse(source, i, ok) ==
  /\ i \in DOMAIN scrapRequests[source]
  /\ commandLoading' = StatusUpdate(commandLoading, scrapRequests[source][i], source,
                                    IF ok THEN "done" ELSE "error")
  /\ scrapRequests' = [scrapRequests EXCEPT ![source] = RemoveAt(@, i)]
  /\ UNCHANGED <<moviesPageVars, statsVars, authVars, commentVars, payloadVars, slugVars, commentsPageVars, movieDialogVars>>

\* disabled={currentCommandStatus?.status === 'scrapping'}
ScrapButtonDisabled(source) == commandLoading[source] = "scrapping"

\* the button of a source is clicked
ClickScrap(source) ==
  /\ ~ScrapButtonDisabled(source)
  /\ sendScrapCommand(source)

InitScrap ==
  /\ MoviesPageIdle
  /\ MovieDialogIdle
  /\ CommentsPageIdle
  /\ StatsIdle
  /\ AuthIdle
  /\ CommentsIdle
  /\ PayloadIdle
  /\ SlugIdle
  /\ ScrapIdle

NextScrap ==
  \/ \E source \in Sources : ClickScrap(source)
  \/ \E source \in Sources, i \in 1..MaxInFlight, ok \in BOOLEAN : ScrapResponse(source, i, ok)

SpecScrap == InitScrap /\ [][NextScrap]_vars

\* the changes of status of the sources in a step
StatusChanges ==
  {<<commandLoading[source], commandLoading'[source]>> :
     source \in {s \in Sources : commandLoading'[s] # commandLoading[s]}}

\* C22 as stated: the status of a source changes only from idle to
\* 'scrapping', from 'scrapping' to 'done' and from 'scrapping' to 'error'.
C22_OnlyForwardTransitions ==
  [][StatusChanges \subseteq {<<"idle", "scrapping">>, <<"scrapping", "done">>,
                              <<"scrapping", "error">>}]_vars

\* C22 amended: the status of a source changes only from idle, 'done' or
\* 'error' to 'scrapping' when the source is triggered, from 'scrapping' to
\* 'done' on a successful response and from 'scrapping' to 'error' on a
\* failed request.
C22_TransitionsWithRetrigger ==
  [][/\ StatusChanges \subseteq {<<"idle", "scrapping">>, <<"done", "scrapping">>,
                                 <<"error", "scrapping">>, <<"scrapping", "done">>,
                                 <<"scrapping", "error">>}
     /\ \A source \in Sources :
          /\ ClickScrap(source) => commandLoading'[source] = "scrapping"
          /\ (\E i \in 1..MaxInFlight : ScrapResponse(source, i, TRUE)) =>
               commandLoading[source] = "scrapping" /\ commandLoading'[source] = "done"
          /\ (\E i \in 1..MaxInFlight : ScrapResponse(source, i, FALSE)) =>
               commandLoading[source] = "scrapping" /\ commandLoading'[source] = "error"]_vars

\* a source that was done is being scraped again while another has failed
C22_Witness ==
  \E s, t \in Sources :
    /\ commandLoading[s] = "scrapping"
    /\ scrapRequests[s] # << >>
    /\ scrapRequests[s][1][s] = "done"
    /\ commandLoading[t] = "error"

\* C30: a step that starts or completes a request of one source leaves the
\* status of every other source as it was, in whatever order the requests in
\* flight complete; a source has a request in flight exactly while its
\* status is 'scrapping', and never more than one: its button is disabled
\* until the response has arrived.
C30_SourcesIndependent ==
  /\ [](\A source \in Sources :
          /\ Len(scrapRequests[source]) <= 1
          /\ scrapRequests[source] # << >> <=> commandLoading[source] = "scrapping"
          /\ scrapRequests[source] # << >> => ScrapButtonDisabled(source))
  /\ [][\A source \in Sources :
          (ClickScrap(source) \/ \E i \in 1..MaxInFlight, ok \in BOOLEAN :
                                    ScrapResponse(source, i, ok)) =>
            \A other \in Sources \ {source} :
              commandLoading'[other] = commandLoading[other]]_vars

\* two sources have a request in flight while a third one is done
C30_Witness ==
  \E s, t, u \in Sources :
    /\ s # t
    /\ scrapRequests[s] # << >>
    /\ scrapRequests[t] # << >>
    /\ commandLoading[u] = "done"

\* ---- CommentsPage (src/pages/CommentsPage.tsx) ---------------------------
\* the comments of the records getMovies may return: two records, a comment
\* id used in both, and timestamps that are all different
CommentWithMovie(movieId, id, timestamp) ==
  [movieId |-> movieId, id |-> id, timestamp |-> timestamp]
AllComments == {CommentWithMovie("m1", "c1", 3), CommentWithMovie("m2", "c1", 2),
                CommentWithMovie("m1", "c2", 1)}

\* allComments.sort((a, b) => b.timestamp.getTime() - a.timestamp.getTime())
RECURSIVE NewestFirst(_)
NewestFirst(S) ==
  IF S = {} THEN << >>
  ELSE LET newest == CHOOSE c \in S : \A other \in S : other.timestamp <= c.timestamp
       IN <<newest>> \o NewestFirst(S \ {newest})

\* getMovies returns (ok) with some records, or throws
FetchCommentsReturns(listing, ok) ==
  /\ commentsLoading
  /\ commentsLoading' = FALSE
  /\ IF ok
       THEN /\ localComments' = NewestFirst(listing)
            /\ fetchedComments' = listing
       ELSE UNCHANGED <<localComments, fetchedComments>>
  /\ UNCHANGED <<commentDeletes, deletedComments, commentDeleteFailed>>
  /\ UNCHANGED <<moviesPageVars, statsVars, authVars, commentVars, payloadVars, slugVars,
                 scrapVars, movieDialogVars>>

\* comments.filter(comment => comment.id !== commentId), over the comments of
\* the render in which the handler was called (seen), not the current ones
commentsAfterDelete(current, seen, movieId, commentId) ==
  SelectSeq(seen, LAMBDA comment : comment.id # commentId)

\* handleDeleteComment up to its await of deleteComment
handleDeleteComment(movieId, commentId) ==
  /\ Len(commentDeletes) < MaxPageDeletes
  /\ commentDeletes' = Append(commentDeletes,
       [movieId |-> movieId, commentId |-> commentId, seen |-> localComments])
  /\ UNCHANGED <<localComments, commentsLoading, fetchedComments, deletedComments,
                 commentDeleteFailed>>
  /\ UNCHANGED <<moviesPageVars, statsVars, authVars, commentVars, payloadVars, slugVars,
                 scrapVars, movieDialogVars>>

\* the Delete button of a listed comment
ClickDeleteComment(comment) ==
  /\ ~commentsLoading
  /\ comment \in Range(localComments)
  /\ handleDeleteComment(comment.movieId, comment.id)

\* deleteComment of a waiting call returns (ok) or throws
PageDeleteReturns(i, ok) ==
  /\ i \in DOMAIN commentDeletes
  /\ LET call == commentDeletes[i]
     IN IF ok
          THEN /\ localComments' = commentsAfterDelete(localComments, call.seen, call.movieId,
                                                  call.commentId)
               /\ deletedComments' = deletedComments \cup
                    {c \in AllComments : c.movieId = call.movieId /\ c.id = call.commentId}
               /\ UNCHANGED commentDeleteFailed
          ELSE /\ commentDeleteFailed' = TRUE
               /\ UNCHANGED <<localComments, deletedComments>>
  /\ commentDeletes' = SubSeq(commentDeletes, 1, i - 1)
                         \o SubSeq(commentDeletes, i + 1, Len(commentDeletes))
  /\ UNCHANGED <<commentsLoading, fetchedComments>>
  /\ UNCHANGED <<moviesPageVars, statsVars, authVars, commentVars, payloadVars, slugVars,
                 scrapVars, movieDialogVars>>

InitCommentsPage ==
  /\ MoviesPageIdle
  /\ MovieDialogIdle
  /\ StatsIdle
  /\ AuthIdle
  /\ CommentsIdle
  /\ PayloadIdle
  /\ SlugIdle
  /\ ScrapIdle
  /\ CommentsPageIdle

NextCommentsPage ==
  \/ \E listing \in SUBSET AllComments, ok \in BOOLEAN : FetchCommentsReturns(listing, ok)
  \/ \E comment \in AllComments : ClickDeleteComment(comment)
  \/ \E i \in 1..MaxPageDeletes, ok \in BOOLEAN : PageDeleteReturns(i, ok)

SpecCommentsPage == InitCommentsPage /\ [][NextCommentsPage]_vars

\* C29: once every deletion started from the page has returned, and all of
\* them succeeded, the local list holds none of the deleted comments and
\* every other comment that was loaded, those of another record with the id
\* of a deleted comment included.
C29_LocalListAfterDeletions ==
  (~commentsLoading /\ commentDeletes = << >> /\ ~commentDeleteFailed) =>
    Range(localComments) = fetchedComments \ deletedComments

\* ---- MovieDialog for the primary store (MovieDialog.tsx, updateMovie) ----
\* the name typed into the form, and the dates of its release date field
FormNames == {"new"}
FormDates == {None, Some(IsoString(1, 0))}
Likes == {0, 3}
FirstUpload == fromDate(2500)
\* the comments of the record when the page loads it
LoadedComments ==
  SubSeq(<<[id |-> "c1", content |-> "x"], [id |-> "c2", content |-> "x"],
           [id |-> "c1", content |-> "y"]>>, 1, IF MaxComments < 3 THEN MaxComments ELSE 3)

\* the record of the page's list for a document: { id: doc.id, ...doc.data() }
LocalMovie(id) ==
  [id |-> id, name |-> movieFields[id].name, likes |-> movieFields[id].likes,
   comments |-> movieComments[id]]

\* handleEditFirebaseMovie(movie) for a record of the list, which is as the
\* store has it when the button is used
handleEditFirebaseMovie(id) ==
  /\ ~isFirebaseMovieDialogOpen
  /\ id \in DOMAIN movieFields
  /\ selectedFirebaseMovie' = Some(LocalMovie(id))
  /\ isFirebaseMovieDialogOpen' = TRUE
  /\ UNCHANGED <<movieFields, movieSave, commentVars>>
  /\ UNCHANGED <<moviesPageVars, statsVars, authVars, payloadVars, slugVars, scrapVars,
                 commentsPageVars>>

handleAddFirebaseMovie ==
  /\ ~isFirebaseMovieDialogOpen
  /\ selectedFirebaseMovie' = None
  /\ isFirebaseMovieDialogOpen' = TRUE
  /\ UNCHANGED <<movieFields, movieSave, commentVars>>
  /\ UNCHANGED <<moviesPageVars, statsVars, authVars, payloadVars, slugVars, scrapVars,
                 commentsPageVars>>

\* onOpenChange(false): the dialog is dismissed
CloseMovieDialog ==
  /\ isFirebaseMovieDialogOpen
  /\ isFirebaseMovieDialogOpen' = FALSE
  /\ UNCHANGED <<movieFields, selectedFirebaseMovie, movieSave, commentVars>>
  /\ UNCHANGED <<moviesPageVars, statsVars, authVars, payloadVars, slugVars, scrapVars,
                 commentsPageVars>>

\* movieData of handleSubmit: the form's fields, and likes and comments taken
\* from the movie prop.  A field is None when the object does not have it or
\* has it undefined.
movieDataOf(movie, name, releaseDate) ==
  [name |-> Some(name),
   releaseDate |-> IF Has(releaseDate) THEN Some(newDate(Val(releaseDate))) ELSE None,
   likes |-> Some(IF Has(movie) THEN Val(movie).likes ELSE 0),
   comments |-> Some(IF Has(movie) THEN Val(movie).comments ELSE << >>),
   uploadDate |-> None]

\* faulty variant: the update stamps the creation timestamp with the release date
updateDataOf_StampsUploadDate(movieData) ==
  [movieData EXCEPT
     !.releaseDate = IF Has(@) THEN Some(fromDate(Val(@))) ELSE None,
     !.uploadDate = IF Has(movieData.releaseDate)
                      THEN Some(fromDate(Val(movieData.releaseDate))) ELSE None]

\* updateData of updateMovie: { ...movieData } with the release date as a Timestamp
updateDataOf(movieData) ==
  [movieData EXCEPT !.releaseDate = IF Has(@) THEN Some(fromDate(Val(@))) ELSE None]

\* handleSubmit of MovieDialog up to its await of updateMovie or addMovie
MovieDialogSubmit(name, releaseDate) ==
  /\ isFirebaseMovieDialogOpen
  /\ ~Has(movieSave)
  /\ LET movieData == movieDataOf(selectedFirebaseMovie, name, releaseDate)
     IN movieSave' =
          IF Has(selectedFirebaseMovie)
            THEN Some([call |-> "updateMovie", id |-> Val(selectedFirebaseMovie).id,
                       data |-> updateDataOf(movieData)])
            ELSE Some([call |-> "addMovie", id |-> "",
                       data |-> updateDataOf(movieData)])
  /\ UNCHANGED <<movieFields, selectedFirebaseMovie, isFirebaseMovieDialogOpen, commentVars>>
  /\ UNCHANGED <<moviesPageVars, statsVars, authVars, payloadVars, slugVars, scrapVars,
                 commentsPageVars>>

\* a field of a document after an update with a field of the data: an
\* undefined field, where the store accepts it, is left as it was
Updated(old, field) == IF Has(field) THEN Val(field) ELSE old

\* handleFirebaseMovieUpdate, the onSuccess of the dialog
handleFirebaseMovieUpdate ==
  /\ isFirebaseMovieDialogOpen' = FALSE
  /\ selectedFirebaseMovie' = None

\* updateDoc(movieRef, updateData) of a waiting updateMovie is applied (ok) or
\* throws
UpdateMovieReturns(ok) ==
  /\ Has(movieSave)
  /\ Val(movieSave).call = "updateMovie"
  /\ movieSave' = None
  /\ LET id == Val(movieSave).id
         data == Val(movieSave).data
     IN IF ok /\ id \in DOMAIN movieFields
          THEN /\ movieFields' = [movieFields EXCEPT ![id] =
                    [name |-> Updated(@.name, data.name),
                     releaseDate |-> IF Has(data.releaseDate) THEN data.releaseDate
                                                             ELSE @.releaseDate,
                     likes |-> Updated(@.likes, data.likes),
                     uploadDate |-> Updated(@.uploadDate, data.uploadDate)]]
               /\ movieComments' = [movieComments EXCEPT ![id] = Updated(@, data.comments)]
               /\ handleFirebaseMovieUpdate
          ELSE UNCHANGED <<movieFields, movieComments, isFirebaseMovieDialogOpen,
                           selectedFirebaseMovie>>
  /\ UNCHANGED <<deleteCommentCalls, appended, targeted, removed>>
  /\ UNCHANGED <<moviesPageVars, statsVars, authVars, payloadVars, slugVars, scrapVars,
                 commentsPageVars>>

\* addDoc of a waiting addMovie is applied (ok), with the server's time as
\* uploadDate and an identifier of the store's own, or throws
AddMovieReturns(ok, now) ==
  /\ Has(movieSave)
  /\ Val(movieSave).call = "addMovie"
  /\ movieSave' = None
  /\ LET data == Val(movieSave).data
         free == MovieIds \ DOMAIN movieFields
     IN IF ok /\ free # {}
          THEN LET id == CHOOSE new \in free : TRUE
               IN /\ movieFields' = movieFields @@
                       (id :> [name |-> Val(data.name), releaseDate |-> data.releaseDate,
                               likes |-> Val(data.likes), uploadDate |-> fromDate(now)])
                  /\ movieComments' = movieComments @@ (id :> Val(data.comments))
                  /\ handleFirebaseMovieUpdate
          ELSE UNCHANGED <<movieFields, movieComments, isFirebaseMovieDialogOpen,
                           selectedFirebaseMovie>>
  /\ UNCHANGED <<deleteCommentCalls, appended, targeted, removed>>
  /\ UNCHANGED <<moviesPageVars, statsVars, authVars, payloadVars, slugVars, scrapVars,
                 commentsPageVars>>

\* the dialog over a collection with one record, whose comments a caller of
\* deleteComment may be removing meanwhile
InitMovieDialog ==
  /\ MoviesPageIdle
  /\ StatsIdle
  /\ AuthIdle
  /\ PayloadIdle
  /\ SlugIdle
  /\ ScrapIdle
  /\ CommentsPageIdle
  /\ \E likes \in Likes :
       movieFields = [id \in {"m1"} |-> [name |-> "old", releaseDate |-> None,
                                         likes |-> likes, uploadDate |-> FirstUpload]]
  /\ movieComments \in {[id \in {"m1"} |-> SubSeq(LoadedComments, 1, k)] :
                          k \in 0..Len(LoadedComments)}
  /\ deleteCommentCalls = [caller \in Callers |-> NoCall]
  /\ appended = {}
  /\ targeted = {}
  /\ removed = {}
  /\ selectedFirebaseMovie = None
  /\ isFirebaseMovieDialogOpen = FALSE
  /\ movieSave = None

NextMovieDialog ==
  \/ \E id \in MovieIds : handleEditFirebaseMovie(id)
  \/ handleAddFirebaseMovie
  \/ CloseMovieDialog
  \/ \E name \in FormNames, releaseDate \in FormDates : MovieDialogSubmit(name, releaseDate)
  \/ \E ok \in BOOLEAN : UpdateMovieReturns(ok)
  \/ \E ok \in BOOLEAN : AddMovieReturns(ok, (MaxSeconds + 2) * 1000)
  \/ \E commentId \in {"c1", "c2"} : deleteComment("a", "m1", commentId)
  \/ \E ok \in BOOLEAN : DeleteCommentGetDoc("a", ok)
  \/ \E ok \in BOOLEAN : DeleteCommentUpdateDoc("a", ok)

SpecMovieDialog == InitMovieDialog /\ [][NextMovieDialog]_vars

\* C21: a save of an edit through MovieDialog leaves the comment list and the
\* likes count of the record in the store as they were just before the save.
C21_SaveKeepsCommentsAndLikes ==
  [][UpdateMovieReturns(TRUE) =>
       LET id == Val(movieSave).id
       IN id \in DOMAIN movieFields =>
            /\ movieComments'[id] = movieComments[id]
            /\ movieFields'[id].likes = movieFields[id].likes]_vars

\* C23: no step removes a record of the primary store or changes the
\* creation timestamp of one; an update from the edit dialog is addressed to
\* the identifier of the record that was loaded, carries no uploadDate, and
\* adds no record.
C23_IdAndUploadDateKept ==
  [][/\ \A id \in DOMAIN movieFields :
          /\ id \in DOMAIN movieFields'
          /\ movieFields'[id].uploadDate = movieFields[id].uploadDate
     /\ (\E name \in FormNames, releaseDate \in FormDates :
           MovieDialogSubmit(name, releaseDate) /\ Has(selectedFirebaseMovie)) =>
          /\ Val(movieSave').id = Val(selectedFirebaseMovie).id
          /\ ~Has(Val(movieSave').data.uploadDate)
     /\ UpdateMovieReturns(TRUE) =>
          /\ DOMAIN movieFields' = DOMAIN movieFields
          /\ \A id \in DOMAIN movieFields \ {Val(movieSave).id} :
               movieFields'[id] = movieFields[id]]_vars

\* a record has been edited, release date included, and a second edit of it
\* is waiting for the store
C23_Witness ==
  /\ Has(movieSave)
  /\ Val(movieSave).call = "updateMovie"
  /\ Val(movieSave).id \in DOMAIN movieFields
  /\ movieFields[Val(movieSave).id].name = "new"
  /\ Has(movieFields[Val(movieSave).id].releaseDate)
  /\ movieFields[Val(movieSave).id].uploadDate = FirstUpload

====
